---- MODULE Spec2Model ----
(***************************************************************************)
(* Staging -> transform -> aggregate pipeline of the Daas backend.         *)
(*                                                                         *)
(*   staging store    raw_<platform> collections written by                *)
(*                    DataIngestionService._store_raw_data_batched         *)
(*   canonical store  unified_orders, written by ETLService                *)
(*   metrics store    unified_metrics_daily, written by MetricsEngine      *)
(*                                                                         *)
(* An ETLService owns one AsyncSession (autoflush off).  Its run           *)
(* process_platform_data is cut at its awaits: the staging query, each     *)
(* document's select, the batch commit, and the final mark_as_processed.   *)
(* Two services may run at once.                                           *)
(***************************************************************************)
EXTENDS Integers, Sequences, FiniteSets, TLC

\* ------------------------------------------------------------------ bounds

\* ETLService.batch_size is 100 in the source; the model cuts batches at a
\* small size so that runs of more than one batch are reachable.
batch_size == 2
MaxDocs == 3
MaxFaults == 2

\* ------------------------------------------------------------- value sets

None == "None"
Runs == {"etl1", "etl2"}
Tenants == {"t1"}
Platforms == {"shopify"}
ExtIds == {"1001", "1002"}
Dates == {"d1"}

\* A platform-native order as a connector returns it: the fields the
\* transform reads.  id = None is a record without its id field,
\* created_at = None one whose date does not parse.
NativeOrder(id, status, day) ==
    [kind |-> "order", id |-> id, financial_status |-> status, created_at |-> day]

\* Iterating a Python dict yields its keys: strings.
KeyItem(name) ==
    [kind |-> "str", id |-> name, financial_status |-> None, created_at |-> None]

OrderKeys == <<"id", "created_at", "financial_status">>

\* A fetched customer: staged by the coordinator, not read by the transform.
Customer == [kind |-> "customer", id |-> "c1", financial_status |-> None, created_at |-> None]

SeqsUpTo(S, n) == UNION { [1..m -> S] : m \in 1..n }

\* A staged payload is either one fetched item (a dict), as the ingestion
\* coordinator stores it, or a list of items, as _process_orders declares.
DictPayload(o) == [shape |-> "dict", items |-> <<o>>]
ListPayload(os) == [shape |-> "list", items |-> os]

\* ------------------------------------------------------------------ state

VARIABLES
    staging,      \* raw_<platform>: sequence of documents, _id = position
    canonical,    \* unified_orders rows, in insertion order
    etl,          \* per ETLService: the position and locals of its run
    rowTx,        \* history: per canonical row, the <<service, batch>> that wrote it
    txstate,      \* history: per service, the outcome of each batch of its current run
    markedWhen,   \* history: per document, outcome of its batch when it was marked
    faults,       \* store failures still to come
    metrics_daily,  \* unified_metrics_daily rows, in insertion order
    save_calls,     \* history: per (tenant, date), the save_metrics calls made
    backfill,       \* backfill_metrics_task: position, locals and history
    platform_api,   \* the platform's HTTP API: its pages and the responses it gives
    conn,           \* an ingestion run and its connector: position, locals, history
    tok,            \* a token-exchanging connector, its fetch calls and its run
    sched,          \* SchedulerService: its jobs and the occurrence that is running
    calc,           \* a calculate_metrics_daily call: position, fetched rows, result
    sync,           \* run_platform_sync: the call in progress and the calls made
    pager,          \* a paginated Amazon fetch and the pages the platform serves
    auth            \* issued access tokens, the revocation list, requests answered

vars == <<staging, canonical, etl, rowTx, txstate, markedWhen, faults,
          metrics_daily, save_calls, backfill, platform_api, conn, tok, sched,
          calc, sync, pager, auth>>

metricsVars == <<metrics_daily, save_calls, backfill>>
fetchVars == <<platform_api, conn>>
serviceVars == <<tok, sched>>
lateVars == <<calc, sync, pager, auth>>

MaxBatches == MaxDocs

NoTx == <<"none", 0>>

NoResult == [returned |-> FALSE, success |-> FALSE, processed |-> 0, total_available |-> 0]

\* backfill_metrics_task before it is called.  inactive: the transaction of
\* the session was rolled back by a failed statement or flush and the session
\* refuses every statement until rollback() is called.  attempted, refused,
\* failed and saved are history: the days whose calculation was started,
\* the days refused by the inactive session, the days whose calculation or
\* save raised, and the days whose save committed.
IdleBackfill ==
    [pc |-> "idle", tenant_id |-> None, start_date |-> 0, current_date |-> 0,
     end_date |-> 0, metrics |-> <<>>, inactive |-> FALSE, attempted |-> {},
     refused |-> {}, failed |-> {}, saved |-> {}, result |-> None]

AllTypes == {"orders", "products", "customers", "inventory"}

MaxPages == 3

\* An API that serves nothing and never fails.
NoFault == [type |-> "orders", page |-> 1, status |-> 200, times |-> 0, retry_after |-> <<>>]
QuietApi == [pages |-> [t \in AllTypes |-> <<>>], fault |-> NoFault, served |-> 0]

\* DataIngestionService before ingest_<platform>_data is called.  sent and
\* slept are history: per data type and page, the requests sent for it and
\* the seconds slept between them; errors are the data types whose fetch
\* ended on an exception inside the connector; lost the data types whose
\* insert_many failed.
IdleConn ==
    [pc |-> "idle", tenant_id |-> None, platform |-> None, t |-> 0,
     outer_attempt |-> 0, attempt |-> 0, page |-> 0, orders |-> <<>>,
     fetched |-> [t \in AllTypes |-> <<>>],
     sent |-> [t \in AllTypes |-> [p \in 1..MaxPages |-> 0]],
     slept |-> [t \in AllTypes |-> [p \in 1..MaxPages |-> 0]],
     errors |-> {}, lost |-> {},
     report |-> [returned |-> FALSE, success |-> FALSE, ingested |-> <<>>]]

MaxCalls == 2

Calls == 1..MaxCalls

\* A fetch method of a token-exchanging connector before it is called.
\* found_valid, had, asked, token and fresh are history: what the first
\* validity check of the call found, the token cached at that moment,
\* whether the call sent a token request, the token its API request
\* carries, when that request was sent and when the platform lets that
\* token expire.
IdleCall ==
    [pc |-> "idle", found_valid |-> FALSE, had |-> 0, asked |-> FALSE,
     token |-> 0, sent_at |-> 0, expires_at |-> 0, result |-> "none"]

NoReport == [returned |-> FALSE, raised |-> FALSE, success |-> FALSE, ingested |-> <<>>]

\* A WalmartService or QuickBooksService with no run and no call on it.
\* access_token 0 is None, a positive one is the n-th token the platform
\* issued; now is the clock in seconds.  expires_at (when the platform lets
\* the cached token expire), token_requests, refresh_failed and elapses are
\* history.
IdleTok ==
    [platform |-> None, mode |-> None, now |-> 0, client |-> "none",
     access_token |-> 0, token_expiry |-> 0, expires_at |-> 0, issued |-> 0,
     lock |-> 0, waiters |-> <<>>, calls |-> [c \in Calls |-> IdleCall],
     token_requests |-> 0, refresh_failed |-> FALSE, elapses |-> 0,
     run |-> [pc |-> "idle", tenant_id |-> None, step |-> 0, results |-> <<>>,
              report |-> NoReport]]

NoCall == [call |-> "none", job_id |-> <<>>, schedule |-> None, raised |-> FALSE]

\* A job function before the scheduler fires it.  tried, caught and raised
\* are history: the rows whose processing began, the rows whose failure the
\* loop caught, and whether the occurrence ended on an exception.
IdleJob ==
    [name |-> None, pc |-> "idle", i |-> 0, tried |-> {}, caught |-> {},
     raised |-> FALSE]

\* SchedulerService after __init__: an AsyncIOScheduler that is not running
\* and holds no job.  pending is its _pending_jobs, jobstore its default job
\* store; tenants are the rows the job functions select.  calls and last are
\* history.
IdleSched ==
    [running |-> FALSE, pending |-> <<>>, jobstore |-> <<>>, tenants |-> <<>>,
     calls |-> 0, last |-> NoCall, job |-> IdleJob]

IdleRun ==
    [pc |-> "idle", tenant_id |-> None, platform |-> None, raw_data |-> <<>>,
     i |-> 0, k |-> 0, session |-> <<>>, batch_processed |-> 0,
     processed_count |-> 0, processed_ids |-> <<>>, result |-> NoResult]

\* The platforms a sync may be requested for.
SyncPlatforms == {"shopify", "amazon", "walmart"}

\* run_platform_sync before it is called.  runs: the calls made per platform.
IdleSync ==
    [pc |-> "idle", tenant_id |-> None, platform |-> None, raised |-> None,
     ingestion_service |-> FALSE, etl_service |-> FALSE,
     ingestion_returned |-> FALSE, success |-> FALSE, etl_started |-> FALSE,
     runs |-> [p \in SyncPlatforms |-> 0]]

\* AmazonService before a paginated fetch is called.  served: per page of
\* the platform, the NextToken its response carries (0: none, n: the token
\* of page n) and whether the request for it succeeds; at: the page the
\* next request asks for; visited: history, the pages already received.
IdlePager ==
    [pc |-> "idle", fetch |-> None, at |-> 0, served |-> <<>>, visited |-> {},
     repeated |-> FALSE]

\* The auth service before any login.  now: the clock; issued: the access
\* tokens created; blacklist: the blacklist:{jti} keys set in Redis; revoked:
\* history, the tokens whose logout was answered "Token has been revoked";
\* accepted, rejected: history, the tokens a later request carried, by the
\* answer of get_current_user.
IdleAuth ==
    [now |-> 0, issued |-> <<>>, blacklist |-> {}, revoked |-> {},
     accepted |-> {}, rejected |-> {}, accepted_revoked |-> {}]

\* calculate_metrics_daily before it is called.
IdleCalc ==
    [pc |-> "idle", tenant_id |-> None, target_date |-> None, orders |-> <<>>,
     platform_orders |-> <<>>, raised |-> FALSE, overall |-> <<>>, platforms |-> <<>>]

\* The services that take no part in a specification are idle.
LateIdle == calc = IdleCalc /\ sync = IdleSync /\ pager = IdlePager /\ auth = IdleAuth

Init ==
    /\ staging = <<>>
    /\ canonical = <<>>
    /\ etl = [r \in Runs |-> IdleRun]
    /\ rowTx = <<>>
    /\ txstate = [r \in Runs |-> [b \in 1..MaxBatches |-> "none"]]
    /\ markedWhen = <<>>
    /\ faults = MaxFaults
    /\ metrics_daily = <<>>
    /\ save_calls = [t \in Tenants, d \in Dates |-> 0]
    /\ backfill = IdleBackfill
    /\ platform_api = QuietApi
    /\ conn = IdleConn
    /\ tok = IdleTok
    /\ sched = IdleSched
    /\ LateIdle

\* ------------------------------------------------------- transform (pure)

\* A nullable Numeric column: <<>> is NULL, <<x>> the amount x.
NoAmount == <<>>
Amount(x) == <<x>>

\* net_sales is float(order_data.get("total_price", 0)); the payloads of
\* this model carry no total_price, so the transform stores 0.
UnifiedOrder(tenant_id, platform, external_order_id, order_date, financial_status) ==
    [tenant_id |-> tenant_id, platform |-> platform,
     external_order_id |-> external_order_id, order_date |-> order_date,
     financial_status |-> financial_status, net_sales |-> Amount(0)]

Raised == [tag |-> "raise", row |-> None]
Returned(row) == [tag |-> "row", row |-> row]
ReturnedNone == [tag |-> "none", row |-> None]

\* ETLService._transform_order.  Subscripting or .get on a str raises; the
\* shopify branch raises on a missing id or date, the amazon branch reads
\* the id with .get (None when absent) and raises only on the date; any
\* other platform falls off the end and returns None.
_transform_order(tenant_id, platform, order_data) ==
    IF platform = "shopify" THEN
        IF order_data.kind = "str" \/ order_data.id = None \/ order_data.created_at = None
        THEN Raised
        ELSE Returned(UnifiedOrder(tenant_id, platform, order_data.id,
                                   order_data.created_at, order_data.financial_status))
    ELSE IF platform = "amazon" THEN
        IF order_data.kind = "str" \/ order_data.created_at = None
        THEN Raised
        ELSE Returned(UnifiedOrder(tenant_id, platform, order_data.id,
                                   order_data.created_at, None))
    ELSE ReturnedNone

\* `for order_data in orders_data`: a list yields its items, a dict its keys.
Iterate(payload) ==
    IF payload.shape = "dict"
    THEN [n \in 1..Len(OrderKeys) |-> KeyItem(OrderKeys[n])]
    ELSE payload.items

\* Lines 87-96 of _process_orders: the rows of the records that transform.
TransformAll(tenant_id, platform, orders_data) ==
    LET results == [n \in 1..Len(orders_data) |->
                        _transform_order(tenant_id, platform, orders_data[n])]
        kept == SelectSeq(results, LAMBDA x : x.tag = "row")
    IN  [n \in 1..Len(kept) |-> kept[n].row]

\* Faulty variant of ExistingIds: the select matches platform and external id
\* only, whatever the tenant of the stored row.
ExistingIdsOfAnyTenant(db, tenant_id, platform, external_ids) ==
    { db[n].external_order_id : n \in
        { m \in 1..Len(db) : /\ db[m].platform = platform
                             /\ db[m].external_order_id \in external_ids } }

\* The select of lines 100-109, against the committed rows: the session
\* does not autoflush, so its own pending rows are not in the result.
ExistingIds(db, tenant_id, platform, external_ids) ==
    { db[n].external_order_id : n \in
        { m \in 1..Len(db) : /\ db[m].tenant_id = tenant_id
                             /\ db[m].platform = platform
                             /\ db[m].external_order_id \in external_ids } }

\* ETLService._process_orders: the rows handed to db.add_all.
_process_orders(tenant_id, platform, payload, db) ==
    LET unified_orders == TransformAll(tenant_id, platform, Iterate(payload))
        external_ids == { unified_orders[n].external_order_id : n \in 1..Len(unified_orders) }
        existing_ids == ExistingIds(db, tenant_id, platform, external_ids)
    IN  SelectSeq(unified_orders, LAMBDA o : o.external_order_id \notin existing_ids)

\* Whether _process_orders reaches its select (line 98).
ReachesSelect(tenant_id, platform, doc) ==
    /\ doc.data_type = "orders"
    /\ TransformAll(tenant_id, platform, Iterate(doc.payload)) # <<>>

\* ETLService._process_document: dispatch on the data-type tag.  products
\* and inventory call methods the class does not define; the AttributeError
\* is caught like any other and the document reports False.
_process_document(tenant_id, platform, doc, db) ==
    IF doc.data_type = "orders"
    THEN [success |-> TRUE, new_orders |-> _process_orders(tenant_id, platform, doc.payload, db)]
    ELSE [success |-> FALSE, new_orders |-> <<>>]


\* ------------------------------------------------------------ staging store

Min(a, b) == IF a < b THEN a ELSE b

RawDocument(tenant_id, platform, data_type, payload) ==
    [tenant_id |-> tenant_id, platform |-> platform, data_type |-> data_type,
     payload |-> payload, processed |-> FALSE]

\* Faulty variant of StoreRawDataBatched: an upsert on the document's content, a
\* document staged before is written again with processed = False.
StoreRawDataUpserted(tenant_id, platform, data_type, data, lost) ==
    LET kept == SelectSeq([n \in 1..Len(data) |-> [at |-> n, item |-> data[n]]],
                          LAMBDA x : x.at \notin lost)
        documents == [n \in 1..Len(kept) |->
                        RawDocument(tenant_id, platform, data_type, DictPayload(kept[n].item))]
        written == { d \in 1..Len(staging) :
                       \E n \in 1..Len(documents) :
                           documents[n] = [staging[d] EXCEPT !.processed = FALSE] }
        fresh == SelectSeq(documents,
                           LAMBDA doc : \A d \in 1..Len(staging) :
                               doc # [staging[d] EXCEPT !.processed = FALSE])
    IN  /\ Len(staging) + Len(data) <= MaxDocs
        /\ staging' = [d \in 1..Len(staging) |->
                          IF d \in written THEN [staging[d] EXCEPT !.processed = FALSE]
                          ELSE staging[d]] \o fresh
        /\ markedWhen' = markedWhen \o [n \in 1..Len(fresh) |-> "none"]
        /\ UNCHANGED <<canonical, etl, rowTx, txstate, faults, metricsVars, fetchVars, serviceVars, lateVars>>

\* DataIngestionService._store_raw_data_batched: one document per fetched
\* item, payload = the item, processed = False.  insert_many(ordered=False)
\* may fail for a batch, which is logged and skipped: `lost` are the
\* positions of the items that did not reach the collection.
StoreRawDataBatched(tenant_id, platform, data_type, data, lost) ==
    LET kept == SelectSeq([n \in 1..Len(data) |-> [at |-> n, item |-> data[n]]],
                          LAMBDA x : x.at \notin lost)
        documents == [n \in 1..Len(kept) |->
                        RawDocument(tenant_id, platform, data_type, DictPayload(kept[n].item))]
    IN  /\ Len(staging) + Len(data) <= MaxDocs
        /\ staging' = staging \o documents
        /\ markedWhen' = markedWhen \o [n \in 1..Len(documents) |-> "none"]
        /\ UNCHANGED <<canonical, etl, rowTx, txstate, faults, metricsVars, fetchVars, serviceVars, lateVars>>

\* A staged 'orders' document whose payload is a list of orders, the shape
\* _process_orders iterates (orders_data: List[Dict]).
StageOrdersDocument(tenant_id, platform, orders_data) ==
    /\ Len(staging) < MaxDocs
    /\ staging' = Append(staging,
                         RawDocument(tenant_id, platform, "orders", ListPayload(orders_data)))
    /\ markedWhen' = Append(markedWhen, "none")
    /\ UNCHANGED <<canonical, etl, rowTx, txstate, faults, metricsVars, fetchVars, serviceVars, lateVars>>

\* Staging store interface, query-unprocessed-by(tenant, platform): the _ids
\* of the (tenant, platform) documents with processed = false, oldest first.
get_unprocessed_data(platform, tenant_id) ==
    SelectSeq([n \in 1..Len(staging) |-> n],
              LAMBDA d : /\ staging[d].tenant_id = tenant_id
                         /\ staging[d].platform = platform
                         /\ ~staging[d].processed)

\* Staging store interface, mark-processed(ids).
mark_as_processed(platform, processed_ids) ==
    [d \in 1..Len(staging) |->
        IF d \in processed_ids THEN [staging[d] EXCEPT !.processed = TRUE]
        ELSE staging[d]]

\* ----------------------------------------------------------- ETLService

\* A store failure: in a budgeted specification failures run out.
TakeFault(budgeted) ==
    IF budgeted THEN faults > 0 /\ faults' = faults - 1 ELSE UNCHANGED faults

BatchNo(i) == (i \div batch_size) + 1
BatchEnd(e) == Min(e.i + batch_size, Len(e.raw_data))
BatchDocs(e) == SubSeq(e.raw_data, e.i + 1, BatchEnd(e))
Range(seq) == { seq[n] : n \in 1..Len(seq) }

Report(success, processed, total_available) ==
    [returned |-> TRUE, success |-> success, processed |-> processed,
     total_available |-> total_available]

\* The function returns: its locals are gone, the service keeps its session.
Return(e, report) == [IdleRun EXCEPT !.pc = "done", !.tenant_id = e.tenant_id,
                                     !.platform = e.platform, !.session = e.session,
                                     !.result = report]

\* History: a new run of service r no longer owns the rows of its earlier runs.
Retire(r) == [n \in 1..Len(rowTx) |-> IF rowTx[n][1] = r THEN NoTx ELSE rowTx[n]]

\* process_platform_data, lines 18-26: the staging query and the early return.
StartRun(r, tenant_id, platform) ==
    /\ etl[r].pc \in {"idle", "done"}
    /\ LET raw_data == get_unprocessed_data(platform, tenant_id)
           e == [IdleRun EXCEPT !.tenant_id = tenant_id, !.platform = platform,
                                !.session = etl[r].session]
       IN  etl' = [etl EXCEPT ![r] =
                    IF raw_data = <<>>
                    THEN Return(e, Report(TRUE, 0, 0))
                    ELSE [e EXCEPT !.pc = "doc", !.raw_data = raw_data]]
    /\ txstate' = [txstate EXCEPT ![r] = [b \in 1..MaxBatches |-> "none"]]
    /\ rowTx' = Retire(r)
    /\ UNCHANGED <<staging, canonical, markedWhen, faults, metricsVars, fetchVars, serviceVars, lateVars>>

\* The staging query raises: the outer except returns a failure report.
StartRunFails(r, tenant_id, platform, budgeted) ==
    /\ etl[r].pc \in {"idle", "done"}
    /\ TakeFault(budgeted)
    /\ etl' = [etl EXCEPT ![r] =
                Return([IdleRun EXCEPT !.tenant_id = tenant_id, !.platform = platform,
                                       !.session = etl[r].session],
                       Report(FALSE, 0, 0))]
    /\ txstate' = [txstate EXCEPT ![r] = [b \in 1..MaxBatches |-> "none"]]
    /\ rowTx' = Retire(r)
    /\ UNCHANGED <<staging, canonical, markedWhen, metricsVars, fetchVars, serviceVars, lateVars>>

Tagged(rows, r, b) == [n \in 1..Len(rows) |-> [row |-> rows[n], tx |-> <<r, b>>]]

\* Faulty variant of AfterDocument: a document that reports False discards the
\* rows the earlier documents of the batch left pending.
AfterDocumentDropsPending(r, success, new_orders) ==
    LET e == etl[r]
        b == BatchNo(e.i)
    IN  /\ etl' = [etl EXCEPT ![r] =
                [e EXCEPT !.session = IF success THEN e.session \o Tagged(new_orders, r, b)
                                      ELSE <<>>,
                          !.batch_processed = e.batch_processed + (IF success THEN 1 ELSE 0),
                          !.k = e.k + 1,
                          !.pc = IF e.i + e.k + 1 = BatchEnd(e) THEN "commit" ELSE "doc"]]
        /\ txstate' = [txstate EXCEPT ![r][b] = "open"]
        /\ UNCHANGED <<staging, canonical, rowTx, markedWhen, metricsVars, fetchVars, serviceVars, lateVars>>

\* _process_batch, lines 56-59: the result of one document joins the batch.
AfterDocument(r, success, new_orders) ==
    LET e == etl[r]
        b == BatchNo(e.i)
    IN  /\ etl' = [etl EXCEPT ![r] =
                [e EXCEPT !.session = e.session \o Tagged(new_orders, r, b),
                          !.batch_processed = e.batch_processed + (IF success THEN 1 ELSE 0),
                          !.k = e.k + 1,
                          !.pc = IF e.i + e.k + 1 = BatchEnd(e) THEN "commit" ELSE "doc"]]
        /\ txstate' = [txstate EXCEPT ![r][b] = "open"]
        /\ UNCHANGED <<staging, canonical, rowTx, markedWhen, metricsVars, fetchVars, serviceVars, lateVars>>

\* _process_batch, lines 56-59: the next document of the batch.
ProcessDocument(r) ==
    /\ etl[r].pc = "doc"
    /\ LET e == etl[r]
           doc == staging[e.raw_data[e.i + e.k + 1]]
           res == _process_document(e.tenant_id, e.platform, doc, canonical)
       IN  AfterDocument(r, res.success, res.new_orders)
    /\ UNCHANGED faults

\* The select of _process_orders raises: _process_document catches it and
\* reports False, the batch goes on.
ProcessDocumentDbError(r, budgeted) ==
    /\ etl[r].pc = "doc"
    /\ LET e == etl[r]
       IN  ReachesSelect(e.tenant_id, e.platform, staging[e.raw_data[e.i + e.k + 1]])
    /\ TakeFault(budgeted)
    /\ AfterDocument(r, FALSE, <<>>)

\* Faulty variant of Insert: last write wins, a row whose natural key is already
\* stored overwrites the stored row.
RECURSIVE Upsert(_, _)
Upsert(db, rows) ==
    IF rows = <<>> THEN db
    ELSE LET row == Head(rows)
             same == { n \in 1..Len(db) :
                         /\ db[n].tenant_id = row.tenant_id
                         /\ db[n].platform = row.platform
                         /\ db[n].external_order_id = row.external_order_id }
         IN  Upsert(IF same = {} THEN Append(db, row)
                    ELSE [n \in 1..Len(db) |-> IF n \in same THEN row ELSE db[n]],
                    Tail(rows))

\* session.add_all followed by the flush of commit: one INSERT per pending row.
Insert(db, rows) == db \o rows

\* Faulty variant of rollback: the pending rows stay in the session.
rollback_keeps_pending(session) == session

\* Session.rollback(): the pending rows are expunged.
rollback(session) == <<>>

\* unified_orders: tenant_id, platform and external_order_id are NOT NULL;
\* there is no unique constraint on the natural key.
ConstraintsHold(session) ==
    \A n \in 1..Len(session) : session[n].row.external_order_id # None

\* Faulty variant of NextBatch: the marking step is guarded by the count of
\* documents that reported success instead of the ids collected.
NextBatchGuardsOnCount(e) ==
    IF e.i + batch_size < Len(e.raw_data)
    THEN [e EXCEPT !.pc = "doc", !.i = e.i + batch_size, !.k = 0, !.batch_processed = 0]
    ELSE IF e.processed_count > 0
    THEN [e EXCEPT !.pc = "mark", !.i = e.i + batch_size]
    ELSE Return(e, Report(TRUE, e.processed_count, Len(e.raw_data)))

\* process_platform_data, lines 27-47, after a batch: the next batch, the
\* marking step, or the report when nothing was committed.
NextBatch(e) ==
    IF e.i + batch_size < Len(e.raw_data)
    THEN [e EXCEPT !.pc = "doc", !.i = e.i + batch_size, !.k = 0, !.batch_processed = 0]
    ELSE IF e.processed_ids # <<>>
    THEN [e EXCEPT !.pc = "mark", !.i = e.i + batch_size]
    ELSE Return(e, Report(TRUE, e.processed_count, Len(e.raw_data)))

\* _process_batch, line 60 succeeding, and lines 31-32 of the caller.
CommitBatch(r) ==
    /\ etl[r].pc = "commit"
    /\ ConstraintsHold(etl[r].session)
    /\ LET e == etl[r]
           rows == e.session
       IN  /\ canonical' = Insert(canonical, [n \in 1..Len(rows) |-> rows[n].row])
           /\ rowTx' = rowTx \o [n \in 1..Len(rows) |-> rows[n].tx]
           /\ etl' = [etl EXCEPT ![r] =
                    NextBatch([e EXCEPT !.session = <<>>,
                                        !.processed_count = e.processed_count + e.batch_processed,
                                        !.processed_ids = e.processed_ids \o BatchDocs(e)])]
           /\ txstate' = [txstate EXCEPT ![r][BatchNo(e.i)] = "committed"]
    /\ UNCHANGED <<staging, markedWhen, faults, metricsVars, fetchVars, serviceVars, lateVars>>

\* Faulty variant of CommitFails: the documents of the failed batch are queued for
\* marking all the same.
CommitFailsMarksBatch(r, budgeted) ==
    /\ etl[r].pc = "commit"
    /\ IF ConstraintsHold(etl[r].session) THEN TakeFault(budgeted) ELSE UNCHANGED faults
    /\ LET e == etl[r]
       IN  /\ etl' = [etl EXCEPT ![r] =
                    NextBatch([e EXCEPT !.session = rollback(e.session),
                                        !.processed_ids = e.processed_ids \o BatchDocs(e)])]
           /\ txstate' = [txstate EXCEPT ![r][BatchNo(e.i)] = "aborted"]
    /\ UNCHANGED <<staging, canonical, rowTx, markedWhen, metricsVars, fetchVars, serviceVars, lateVars>>

\* _process_batch, lines 62-65, and lines 36-38 of the caller: the commit
\* raises, the session is rolled back, the loop continues.
CommitFails(r, budgeted) ==
    /\ etl[r].pc = "commit"
    /\ IF ConstraintsHold(etl[r].session) THEN TakeFault(budgeted) ELSE UNCHANGED faults
    /\ LET e == etl[r]
       IN  /\ etl' = [etl EXCEPT ![r] = NextBatch([e EXCEPT !.session = rollback(e.session)])]
           /\ txstate' = [txstate EXCEPT ![r][BatchNo(e.i)] = "aborted"]
    /\ UNCHANGED <<staging, canonical, rowTx, markedWhen, metricsVars, fetchVars, serviceVars, lateVars>>

\* History: the batch of the current run of r that holds document d.
BatchOfDoc(e, d) ==
    BatchNo((CHOOSE n \in 1..Len(e.raw_data) : e.raw_data[n] = d) - 1)

\* process_platform_data, lines 39-47: mark and report.
MarkProcessed(r) ==
    /\ etl[r].pc = "mark"
    /\ LET e == etl[r]
           ids == Range(e.processed_ids)
       IN  /\ staging' = mark_as_processed(e.platform, ids)
           /\ markedWhen' = [d \in 1..Len(staging) |->
                                IF d \in ids /\ ~staging[d].processed
                                THEN txstate[r][BatchOfDoc(e, d)]
                                ELSE markedWhen[d]]
           /\ etl' = [etl EXCEPT ![r] =
                        Return(e, Report(TRUE, e.processed_count, Len(e.raw_data)))]
    /\ UNCHANGED <<canonical, rowTx, txstate, faults, metricsVars, fetchVars, serviceVars, lateVars>>

\* mark_as_processed raises: lines 48-51 return a failure report.
MarkFails(r, budgeted) ==
    /\ etl[r].pc = "mark"
    /\ TakeFault(budgeted)
    /\ etl' = [etl EXCEPT ![r] = Return(etl[r], Report(FALSE, 0, 0))]
    /\ UNCHANGED <<staging, canonical, rowTx, txstate, markedWhen, metricsVars, fetchVars, serviceVars, lateVars>>

\* The process dies inside a run: its locals and its session are lost, an
\* open transaction is rolled back by the store.
Crash(r, budgeted) ==
    /\ etl[r].pc \in {"doc", "commit", "mark"}
    /\ TakeFault(budgeted)
    /\ etl' = [etl EXCEPT ![r] = IdleRun]
    /\ txstate' = [txstate EXCEPT ![r] =
                    [b \in 1..MaxBatches |-> IF txstate[r][b] = "open" THEN "aborted"
                                             ELSE txstate[r][b]]]
    /\ UNCHANGED <<staging, canonical, rowTx, markedWhen, metricsVars, fetchVars, serviceVars, lateVars>>

\* ------------------------------------------------------- specifications

\* The inputs of the transform runs: fetched orders as the coordinator
\* stages them, and list payloads with one order, a re-ingested order whose
\* status changed, a second order, the same order twice, two orders.
FetchedOrders == { NativeOrder("1001", "paid", "d1"), NativeOrder("1002", "paid", "d1") }

ListPayloads ==
    { <<NativeOrder("1001", "paid", "d1")>>,
      <<NativeOrder("1001", "refunded", "d1")>>,
      <<NativeOrder("1002", "paid", "d1")>>,
      <<NativeOrder("1001", "paid", "d1"), NativeOrder("1001", "paid", "d1")>>,
      <<NativeOrder("1001", "paid", "d1"), NativeOrder("1002", "paid", "d1")>> }

StageFrom(fetched, lists) ==
    \E t \in Tenants, p \in Platforms :
        \/ \E o \in fetched, lost \in SUBSET {1} :
                StoreRawDataBatched(t, p, "orders", <<o>>, lost)
        \/ \E lost \in SUBSET {1} :
                StoreRawDataBatched(t, p, "customers", <<Customer>>, lost)
        \/ \E os \in lists : StageOrdersDocument(t, p, os)

Stage == StageFrom(FetchedOrders, ListPayloads)

Transform(services, budgeted) ==
    \E r \in services :
        \/ \E t \in Tenants, p \in Platforms : StartRun(r, t, p)
        \/ \E t \in Tenants, p \in Platforms : StartRunFails(r, t, p, budgeted)
        \/ ProcessDocument(r)
        \/ ProcessDocumentDbError(r, budgeted)
        \/ CommitBatch(r)
        \/ CommitFails(r, budgeted)
        \/ MarkProcessed(r)
        \/ MarkFails(r, budgeted)
        \/ Crash(r, budgeted)

\* One ETLService, any staging, store failures and crashes at any time.
Next == Stage \/ Transform({"etl1"}, FALSE)

Spec == Init /\ [][Next]_vars

\* Two ETLServices whose runs interleave over a staging store of ConcDocs
\* documents.
ConcDocs == MaxDocs - 1

NextConc == (Len(staging) < ConcDocs /\ Stage) \/ Transform(Runs, FALSE)

SpecConc == Init /\ [][NextConc]_vars

\* A run restarted after its marking step failed: the staged documents are
\* given, one ETLService runs, and the only failure is one mark_as_processed.
StagedDocs ==
    { RawDocument("t1", "shopify", "orders", DictPayload(o)) : o \in FetchedOrders }
        \cup { RawDocument("t1", "shopify", "orders", ListPayload(os)) : os \in ListPayloads }

InitRetry ==
    /\ staging \in SeqsUpTo(StagedDocs, MaxDocs)
    /\ canonical = <<>>
    /\ etl = [r \in Runs |-> IdleRun]
    /\ rowTx = <<>>
    /\ txstate = [r \in Runs |-> [b \in 1..MaxBatches |-> "none"]]
    /\ markedWhen = [n \in 1..Len(staging) |-> "none"]
    /\ faults = 1
    /\ metrics_daily = <<>>
    /\ save_calls = [t \in Tenants, d \in Dates |-> 0]
    /\ backfill = IdleBackfill
    /\ platform_api = QuietApi
    /\ conn = IdleConn
    /\ tok = IdleTok
    /\ sched = IdleSched
    /\ LateIdle

NextRetry ==
    \/ StartRun("etl1", "t1", "shopify")
    \/ ProcessDocument("etl1")
    \/ CommitBatch("etl1")
    \/ MarkProcessed("etl1")
    \/ MarkFails("etl1", TRUE)

SpecRetry == InitRetry /\ [][NextRetry]_vars

\* Runs of one ETLService over staged list payloads that mix a malformed
\* record (no id, or no parseable date) with well-formed ones, on the two
\* platforms _transform_order knows.  The store never fails: a commit fails
\* only when a pending row breaks a constraint of unified_orders.
OrderPlatforms == {"shopify", "amazon"}

MalformedPayloads ==
    { <<NativeOrder(None, "paid", "d1"), NativeOrder("1002", "paid", "d1")>>,
      <<NativeOrder("1001", "paid", None), NativeOrder("1002", "paid", "d1")>>,
      <<NativeOrder("1003", "paid", "d1")>> }

MalformedDocs ==
    { RawDocument("t1", p, "orders", ListPayload(os)) :
        p \in OrderPlatforms, os \in MalformedPayloads }

InitMalformed ==
    /\ staging \in SeqsUpTo(MalformedDocs, MaxDocs)
    /\ canonical = <<>>
    /\ etl = [r \in Runs |-> IdleRun]
    /\ rowTx = <<>>
    /\ txstate = [r \in Runs |-> [b \in 1..MaxBatches |-> "none"]]
    /\ markedWhen = [n \in 1..Len(staging) |-> "none"]
    /\ faults = 0
    /\ metrics_daily = <<>>
    /\ save_calls = [t \in Tenants, d \in Dates |-> 0]
    /\ backfill = IdleBackfill
    /\ platform_api = QuietApi
    /\ conn = IdleConn
    /\ tok = IdleTok
    /\ sched = IdleSched
    /\ LateIdle

NextMalformed ==
    \/ \E p \in OrderPlatforms : StartRun("etl1", "t1", p)
    \/ ProcessDocument("etl1")
    \/ CommitBatch("etl1")
    \/ CommitFails("etl1", TRUE)
    \/ MarkProcessed("etl1")

SpecMalformed == InitMalformed /\ [][NextMalformed]_vars

\* Repeated runs of one ETLService under a finite number of store failures
\* and crashes; every step of a run that can be taken is eventually taken,
\* and a run is started again whenever the service is free.
LivePayloads == { <<NativeOrder("1001", "paid", "d1")>> }

NextLive ==
    \/ StageFrom({NativeOrder("1001", "paid", "d1")}, LivePayloads)
    \/ Transform({"etl1"}, TRUE)

Fairness ==
    /\ \A t \in Tenants, p \in Platforms : WF_vars(StartRun("etl1", t, p))
    /\ WF_vars(ProcessDocument("etl1"))
    /\ WF_vars(CommitBatch("etl1"))
    /\ WF_vars(MarkProcessed("etl1"))

SpecLive == Init /\ [][NextLive]_vars /\ Fairness

\* ------------------------------------------------------------ MetricsEngine

Overall == None

OrdersOn(db, tenant_id, target_date) ==
    SelectSeq(db, LAMBDA o : o.tenant_id = tenant_id /\ o.order_date = target_date)

\* `order.net_sales or 0`.
OrZero(amount) == IF amount = NoAmount THEN 0 ELSE amount[1]

RECURSIVE Sum(_)
Sum(xs) == IF xs = <<>> THEN 0 ELSE Head(xs) + Sum(Tail(xs))

\* A quotient kept exact: num/den; den = 0 is the ZeroDivisionError of n/0.
Quotient(n, d) == [num |-> n, den |-> d]

\* Faulty variant of Divide: the quotient is taken whatever the count.
DivideUnguarded(net_sales, total_orders) == Quotient(net_sales, total_orders)

\* Line 76: (net_sales/total_orders) if total_orders else 0.
Divide(net_sales, total_orders) ==
    IF total_orders # 0 THEN Quotient(net_sales, total_orders) ELSE Quotient(0, 1)

\* MetricsEngine.aggregate_orders: the count, the net sales and the aov.
aggregate_orders(orders) ==
    LET total_orders == Len(orders)
        net_sales == Sum([n \in 1..Len(orders) |-> OrZero(orders[n].net_sales)])
    IN  [total_orders |-> total_orders, net_sales |-> net_sales,
         aov |-> Divide(net_sales, total_orders)]

\* select(UnifiedOrder.platform, UnifiedOrder): rows of two columns.
PlatformAndOrder(orders) == [n \in 1..Len(orders) |-> <<orders[n].platform, orders[n]>>]

\* Result.scalars(): the first column of every row.
scalars(rows) == [n \in 1..Len(rows) |-> rows[n][1]]

\* MetricsEngine.calculate_platform_breakdown.  `orders` are the scalars of
\* the (platform, order) rows, that is the platform strings: the first
\* `order.platform` of the grouping loop raises AttributeError.  With no row
\* the loop is not entered and the dict returned is empty.
calculate_platform_breakdown(db, tenant_id, target_date) ==
    LET orders == scalars(PlatformAndOrder(OrdersOn(db, tenant_id, target_date)))
    IN  [raised |-> orders # <<>>, platforms |-> <<>>]

\* MetricsEngine.calculate_product_metrics: a per-product rollup that
\* save_metrics never reads; this model carries none of its entries.
calculate_product_metrics(db, tenant_id, target_date) == <<>>

\* MetricsEngine.calculate_metrics_daily.
calculate_metrics_daily(db, tenant_id, target_date) ==
    LET platform_metrics == calculate_platform_breakdown(db, tenant_id, target_date)
    IN  [raised |-> platform_metrics.raised,
         date |-> target_date, tenant_id |-> tenant_id,
         overall |-> aggregate_orders(OrdersOn(db, tenant_id, target_date)),
         platforms |-> platform_metrics.platforms,
         products |-> calculate_product_metrics(db, tenant_id, target_date)]

UnifiedMetricsDaily(tenant_id, date, platform, data) ==
    [tenant_id |-> tenant_id, date |-> date, platform |-> platform,
     total_orders |-> data.total_orders, net_sales |-> data.net_sales,
     aov |-> data.aov]

RECURSIVE SetToSeq(_)
SetToSeq(S) == IF S = {} THEN <<>>
               ELSE LET x == CHOOSE y \in S : TRUE IN <<x>> \o SetToSeq(S \ {x})

\* save_metrics, lines 109-130: the records added to the session, the
\* overall one with platform=None.
MetricRecords(metrics_data) ==
    <<UnifiedMetricsDaily(metrics_data.tenant_id, metrics_data.date, Overall,
                          metrics_data.overall)>>
    \o LET ps == SetToSeq(DOMAIN metrics_data.platforms)
       IN  [n \in 1..Len(ps) |->
              UnifiedMetricsDaily(metrics_data.tenant_id, metrics_data.date, ps[n],
                                  metrics_data.platforms[ps[n]])]

MetricKey(rec) == <<rec.tenant_id, rec.date, rec.platform>>

\* unified_metrics_daily: platform is NOT NULL, and uq_metrics_daily makes
\* (tenant_id, date, platform) unique.
MetricsConstraintsHold(table, records) ==
    LET all == table \o records
    IN  /\ \A n \in 1..Len(records) : records[n].platform # None
        /\ \A m, n \in 1..Len(all) : m # n => MetricKey(all[m]) # MetricKey(all[n])

MaxSaves == 2

\* calculate_daily_metrics_task: calculate_metrics_daily, then save_metrics,
\* whose single commit inserts every record or raises and inserts none.  When
\* the calculation raises, save_metrics is not called and the task returns
\* False.
SaveDailyMetrics(tenant_id, target_date) ==
    LET metrics_data == calculate_metrics_daily(canonical, tenant_id, target_date)
        records == MetricRecords(metrics_data)
    IN  IF metrics_data.raised
        THEN UNCHANGED <<save_calls, metrics_daily>>
        ELSE /\ save_calls' = [save_calls EXCEPT ![tenant_id, target_date] = @ + 1]
             /\ metrics_daily' = IF MetricsConstraintsHold(metrics_daily, records)
                                 THEN metrics_daily \o records
                                 ELSE metrics_daily

CalculateDailyMetricsTask(tenant_id, target_date) ==
    /\ save_calls[tenant_id, target_date] < MaxSaves
    /\ SaveDailyMetrics(tenant_id, target_date)
    /\ UNCHANGED <<staging, canonical, etl, rowTx, txstate, markedWhen, faults,
                   backfill, fetchVars, serviceVars, lateVars>>

\* The canonical rows a metrics calculation may meet.
MetricsRows ==
    { UnifiedOrder("t1", p, id, "d1", st) :
        p \in {"shopify", "amazon"}, id \in ExtIds, st \in {"paid", "refunded"} }

MaxRows == 3

InitMetrics ==
    /\ staging = <<>>
    /\ canonical \in {<<>>} \cup SeqsUpTo(MetricsRows, MaxRows)
    /\ etl = [r \in Runs |-> IdleRun]
    /\ rowTx = [n \in 1..Len(canonical) |-> NoTx]
    /\ txstate = [r \in Runs |-> [b \in 1..MaxBatches |-> "none"]]
    /\ markedWhen = <<>>
    /\ faults = 0
    /\ metrics_daily = <<>>
    /\ save_calls = [t \in Tenants, d \in Dates |-> 0]
    /\ backfill = IdleBackfill
    /\ platform_api = QuietApi
    /\ conn = IdleConn
    /\ tok = IdleTok
    /\ sched = IdleSched
    /\ LateIdle

NextMetrics == \E t \in Tenants, d \in Dates : CalculateDailyMetricsTask(t, d)

SpecMetrics == InitMetrics /\ [][NextMetrics]_vars

\* ---------------------------------------------------------- backfill_metrics

\* The days of a backfill in order; `current_date += timedelta(days=1)` moves
\* one place to the right.
Calendar == <<"d1", "d2", "d3", "d4", "d5">>

MaxDays == 3

\* backfill_metrics_task called: backfill_metrics sets current_date=start_date.
StartBackfill(tenant_id, start_date, end_date) ==
    /\ backfill.pc = "idle"
    /\ backfill' = [IdleBackfill EXCEPT !.pc = "loop", !.tenant_id = tenant_id,
                                        !.start_date = start_date,
                                        !.current_date = start_date,
                                        !.end_date = end_date]
    /\ UNCHANGED <<staging, canonical, etl, rowTx, txstate, markedWhen, faults,
                   metrics_daily, save_calls, fetchVars, serviceVars, lateVars>>

\* Line 138 inside the try: calculate_metrics_daily for current_date.  On a
\* session left inactive by an earlier day the first select raises
\* PendingRollbackError; on an active session a select may raise a database
\* error, which may leave the session's transaction unusable.  Either
\* exception is caught at line 141 and logged; no rollback() is issued, and
\* line 143 moves to the next day.  The AttributeError of the platform
\* breakdown is caught the same way and leaves the session as it was.
BackfillCalculate(raises, poisons) ==
    /\ backfill.pc = "loop"
    /\ backfill.current_date <= backfill.end_date
    /\ backfill' =
          IF backfill.inactive
          THEN [backfill EXCEPT !.refused = @ \cup {backfill.current_date},
                                !.failed = @ \cup {backfill.current_date},
                                !.current_date = @ + 1]
          ELSE IF raises
          THEN [backfill EXCEPT !.attempted = @ \cup {backfill.current_date},
                                !.failed = @ \cup {backfill.current_date},
                                !.inactive = poisons,
                                !.current_date = @ + 1]
          ELSE LET metrics == calculate_metrics_daily(canonical, backfill.tenant_id,
                                                      Calendar[backfill.current_date])
               IN  IF metrics.raised
                   THEN [backfill EXCEPT !.attempted = @ \cup {backfill.current_date},
                                         !.failed = @ \cup {backfill.current_date},
                                         !.metrics = <<metrics>>,
                                         !.current_date = @ + 1]
                   ELSE [backfill EXCEPT !.attempted = @ \cup {backfill.current_date},
                                         !.metrics = <<metrics>>,
                                         !.pc = "save"]
    /\ UNCHANGED <<staging, canonical, etl, rowTx, txstate, markedWhen, faults,
                   metrics_daily, save_calls, fetchVars, serviceVars, lateVars>>

\* Line 139 inside the try: save_metrics adds the records and commits; the
\* commit inserts all of them, or its flush raises, inserts none and leaves
\* the session inactive.  The exception is caught at line 141 and logged
\* without a rollback(); line 143 moves to the next day either way.
BackfillSave ==
    /\ backfill.pc = "save"
    /\ LET records == MetricRecords(backfill.metrics[1])
       IN  IF MetricsConstraintsHold(metrics_daily, records)
           THEN /\ metrics_daily' = metrics_daily \o records
                /\ backfill' = [backfill EXCEPT !.saved = @ \cup {backfill.current_date},
                                                !.current_date = @ + 1,
                                                !.pc = "loop"]
           ELSE /\ metrics_daily' = metrics_daily
                /\ backfill' = [backfill EXCEPT !.failed = @ \cup {backfill.current_date},
                                                !.inactive = TRUE,
                                                !.current_date = @ + 1,
                                                !.pc = "loop"]
    /\ UNCHANGED <<staging, canonical, etl, rowTx, txstate, markedWhen, faults,
                   save_calls, fetchVars, serviceVars, lateVars>>

\* The loop ends, backfill_metrics returns None, and the task logs
\* "Backfill completed from {start_date} to {end_date}" and returns True.
BackfillReturn ==
    /\ backfill.pc = "loop"
    /\ backfill.current_date > backfill.end_date
    /\ backfill' = [backfill EXCEPT !.pc = "done", !.result = "True"]
    /\ UNCHANGED <<staging, canonical, etl, rowTx, txstate, markedWhen, faults,
                   metrics_daily, save_calls, fetchVars, serviceVars, lateVars>>

\* What the task hands back: the value returned and the two dates of its
\* closing log line.  Nothing in it names a day that failed.
BackfillReport(b) ==
    [value |-> b.result, from |-> b.start_date, to |-> b.end_date, failed_dates |-> {}]

\* The canonical rows a backfill may meet.
BackfillRows ==
    { [UnifiedOrder("t1", p, "1001", d, "paid") EXCEPT !.net_sales = a] :
        p \in {"shopify", "amazon"}, d \in {"d1", "d2"},
        a \in {NoAmount, Amount(300)} }

InitBackfill ==
    /\ staging = <<>>
    /\ canonical \in {<<>>} \cup SeqsUpTo(BackfillRows, MaxRows - 1)
    /\ etl = [r \in Runs |-> IdleRun]
    /\ rowTx = [n \in 1..Len(canonical) |-> NoTx]
    /\ txstate = [r \in Runs |-> [b \in 1..MaxBatches |-> "none"]]
    /\ markedWhen = <<>>
    /\ faults = 0
    /\ metrics_daily = <<>>
    /\ save_calls = [t \in Tenants, d \in Dates |-> 0]
    /\ backfill = IdleBackfill
    /\ platform_api = QuietApi
    /\ conn = IdleConn
    /\ tok = IdleTok
    /\ sched = IdleSched
    /\ LateIdle

NextBackfill ==
    \/ \E t \in Tenants, start_date, end_date \in 1..MaxDays :
          StartBackfill(t, start_date, end_date)
    \/ \E raises, poisons \in BOOLEAN : BackfillCalculate(raises, poisons)
    \/ BackfillSave
    \/ BackfillReturn

SpecBackfill == InitBackfill /\ [][NextBackfill]_vars

\* ------------------------------------- calculate_metrics_daily, step by step

\* Lines 50-51: the first select and the overall aggregate of its rows.  The
\* call then awaits the platform breakdown, and other tasks may run.
StartCalculate(tenant_id, target_date) ==
    /\ calc.pc \in {"idle", "done"}
    /\ LET orders == OrdersOn(canonical, tenant_id, target_date)
       IN  calc' = [IdleCalc EXCEPT !.pc = "breakdown", !.tenant_id = tenant_id,
                                    !.target_date = target_date,
                                    !.orders = orders,
                                    !.overall = aggregate_orders(orders)]
    /\ UNCHANGED <<staging, canonical, etl, rowTx, txstate, markedWhen, faults,
                   metricsVars, fetchVars, serviceVars, sync, pager, auth>>

\* Lines 52 and 88-106: calculate_platform_breakdown sends its own select
\* and groups what that select returns; lines 53-60 return the dict unless
\* the breakdown raised.
PlatformBreakdown ==
    /\ calc.pc = "breakdown"
    /\ LET platform_metrics ==
               calculate_platform_breakdown(canonical, calc.tenant_id, calc.target_date)
       IN  calc' = [calc EXCEPT
                      !.pc = "done",
                      !.platform_orders =
                          OrdersOn(canonical, calc.tenant_id, calc.target_date),
                      !.raised = platform_metrics.raised,
                      !.platforms = platform_metrics.platforms]
    /\ UNCHANGED <<staging, canonical, etl, rowTx, txstate, markedWhen, faults,
                   metricsVars, fetchVars, serviceVars, sync, pager, auth>>

\* A metrics calculation while one ETLService transforms staged list
\* payloads of the same tenant and day; the store never fails.
CalcDocs == { RawDocument("t1", "shopify", "orders", ListPayload(os)) : os \in ListPayloads }

InitCalc ==
    /\ staging \in SeqsUpTo(CalcDocs, MaxDocs - 1)
    /\ canonical = <<>>
    /\ etl = [r \in Runs |-> IdleRun]
    /\ rowTx = <<>>
    /\ txstate = [r \in Runs |-> [b \in 1..MaxBatches |-> "none"]]
    /\ markedWhen = [n \in 1..Len(staging) |-> "none"]
    /\ faults = 0
    /\ metrics_daily = <<>>
    /\ save_calls = [t \in Tenants, d \in Dates |-> 0]
    /\ backfill = IdleBackfill
    /\ platform_api = QuietApi
    /\ conn = IdleConn
    /\ tok = IdleTok
    /\ sched = IdleSched
    /\ LateIdle

NextCalc ==
    \/ StartRun("etl1", "t1", "shopify")
    \/ ProcessDocument("etl1")
    \/ CommitBatch("etl1")
    \/ MarkProcessed("etl1")
    \/ \E t \in Tenants, d \in Dates : StartCalculate(t, d)
    \/ PlatformBreakdown

SpecCalc == InitCalc /\ [][NextCalc]_vars

\* ----------------------------------------------- connectors and ingestion

FetchPlatforms == {"shopify", "amazon"}

\* The fetches of one ingestion run, in call order.
FetchTypes(platform) ==
    IF platform = "shopify" THEN <<"orders", "products", "customers", "inventory">>
    ELSE <<"orders", "inventory">>

Product == [kind |-> "product", id |-> "p1", financial_status |-> None, created_at |-> None]
InventoryLevel == [kind |-> "inventory", id |-> "i1", financial_status |-> None, created_at |-> None]

\* @http_retry(max_attempts=3, min_wait=4, max_wait=10)
max_attempts == 3
min_wait == 4
max_wait == 10

\* int(response.headers.get('Retry-After', 60))
DefaultRetryAfter == 60

Max(a, b) == IF a > b THEN a ELSE b

\* What the platform answers to the request for `page` of `type`: the
\* failure it is set to give, as long as it has given it fewer than `times`
\* times, else 200 with the items of the page and a continuation cursor
\* unless the page is the last.  status 0 is a connection failure.
Respond(api, type, page) ==
    IF api.fault.type = type /\ api.fault.page = page /\ api.served < api.fault.times
    THEN [status |-> api.fault.status, items |-> <<>>, next |-> FALSE,
          retry_after |-> api.fault.retry_after]
    ELSE [status |-> 200,
          items |-> IF page <= Len(api.pages[type]) THEN api.pages[type][page] ELSE <<>>,
          next |-> page < Len(api.pages[type]),
          retry_after |-> <<>>]

\* _make_request, lines 41-60: the exception the response raises, if any.
\* 429 raises HTTPStatusError after the sleep, raise_for_status raises it
\* for every other 4xx and 5xx, a connection failure raises ConnectError.
Raises(response) ==
    IF response.status = 200 THEN "none"
    ELSE IF response.status = 0 THEN "ConnectError"
    ELSE "HTTPStatusError"

\* Line 43-46: the sleep of a throttled request, before it raises.
RateLimitSleep(response) ==
    IF response.status # 429 THEN 0
    ELSE IF response.retry_after = <<>> THEN DefaultRetryAfter
    ELSE response.retry_after[1]

\* Faulty variant of retry_if_exception_type: a status error is not retried.
retry_if_transport_error(exc) == exc \in {"ConnectError", "TimeoutException"}

\* retry_if_exception_type((httpx.HTTPError, httpx.TimeoutException)):
\* HTTPStatusError, ConnectError and TimeoutException are all HTTPErrors;
\* tenacity's RetryError is not.
retry_if_exception_type(exc) == exc \in {"HTTPStatusError", "ConnectError", "TimeoutException"}

\* Faulty variant of stop_after_attempt: one attempt more.
stop_after_next_attempt(attempt_number) == attempt_number > max_attempts

\* stop_after_attempt(max_attempts).
stop_after_attempt(attempt_number) == attempt_number >= max_attempts

\* wait_exponential(multiplier=1, min=min_wait, max=max_wait).
wait_exponential(attempt_number) ==
    Max(min_wait, Min(2 ^ (attempt_number - 1), max_wait))

\* What a connector's fetch method does with an exception out of
\* _make_request: _shopify_get catches it and returns [], the Amazon loop
\* catches it, breaks and returns the orders collected so far.
OnRequestError(platform, collected) ==
    IF platform = "shopify" THEN [tag |-> "return", value |-> <<>>]
    ELSE [tag |-> "return", value |-> collected]

\* ingest_<platform>_data called: the first fetch of the run starts.
StartIngest(tenant_id, platform) ==
    /\ conn.pc = "idle"
    /\ conn' = [IdleConn EXCEPT !.pc = "request", !.tenant_id = tenant_id,
                                !.platform = platform, !.t = 1,
                                !.outer_attempt = 1, !.attempt = 1, !.page = 1]
    /\ UNCHANGED <<staging, canonical, etl, rowTx, txstate, markedWhen, faults,
                   metricsVars, platform_api, serviceVars, lateVars>>

\* _fetch_with_retry gets the outcome of a fetch method.  A raised
\* HTTPError is retried up to max_attempts times, any other exception ends
\* the run at the except of ingest_<platform>_data; a returned list is kept
\* and the run goes to its next fetch, or to storing after the last.
AfterFetch(c, type, outcome) ==
    IF outcome.tag = "raise"
    THEN IF retry_if_exception_type(outcome.value) /\ ~stop_after_attempt(c.outer_attempt)
         THEN [c EXCEPT !.outer_attempt = @ + 1, !.attempt = 1, !.page = 1,
                        !.orders = <<>>]
         ELSE [c EXCEPT !.pc = "done",
                        !.report = [returned |-> TRUE, success |-> FALSE, ingested |-> <<>>]]
    ELSE IF c.t < Len(FetchTypes(c.platform))
    THEN [c EXCEPT !.fetched[type] = outcome.value, !.t = @ + 1,
                   !.outer_attempt = 1, !.attempt = 1, !.page = 1, !.orders = <<>>]
    ELSE [c EXCEPT !.fetched[type] = outcome.value, !.pc = "store"]

\* One attempt of _make_request for the current page and what follows it up
\* to the next request.  On 200 the Shopify connector returns the items of
\* this one response; the Amazon connector extends its list and asks for the
\* next page while there is a NextToken.  On an exception tenacity sleeps
\* and tries again, or raises RetryError once stop_after_attempt holds, or
\* re-raises at once an exception it does not retry.
SendRequest ==
    /\ conn.pc = "request"
    /\ LET type == FetchTypes(conn.platform)[conn.t]
           response == Respond(platform_api, type, conn.page)
           exc == Raises(response)
           sent == [conn EXCEPT !.sent[type][conn.page] = @ + 1,
                                !.slept[type][conn.page] = @ + RateLimitSleep(response)]
       IN  /\ platform_api' = [platform_api EXCEPT
                                  !.served = IF response.status # 200 THEN @ + 1 ELSE @]
           /\ conn' =
                IF exc = "none"
                THEN IF conn.platform = "shopify"
                     THEN AfterFetch(sent, type, [tag |-> "return", value |-> response.items])
                     ELSE IF response.next
                     THEN [sent EXCEPT !.orders = @ \o response.items,
                                       !.page = @ + 1, !.attempt = 1]
                     ELSE AfterFetch(sent, type,
                                     [tag |-> "return", value |-> conn.orders \o response.items])
                ELSE IF retry_if_exception_type(exc) /\ ~stop_after_attempt(conn.attempt)
                THEN [sent EXCEPT !.attempt = @ + 1,
                                  !.slept[type][conn.page] = @ + wait_exponential(conn.attempt)]
                ELSE AfterFetch([sent EXCEPT !.errors = @ \cup {type}], type,
                                OnRequestError(conn.platform, conn.orders))
    /\ UNCHANGED <<staging, canonical, etl, rowTx, txstate, markedWhen, faults, metricsVars,
                   serviceVars, lateVars>>

\* The documents _store_raw_data_batched writes for one data type: one per
\* fetched item, or none when its insert_many failed.
RawDocuments(tenant_id, platform, data_type, data, failed) ==
    IF failed THEN <<>>
    ELSE [n \in 1..Len(data) |->
            RawDocument(tenant_id, platform, data_type, DictPayload(data[n]))]

RECURSIVE Concat(_)
Concat(seqs) == IF seqs = <<>> THEN <<>> ELSE Head(seqs) \o Concat(Tail(seqs))

\* The gather of _store_raw_data_batched over the fetched lists, then the
\* report: success with the length of each fetched list.  A failed
\* insert_many is caught inside _store_raw_data_batched, so the gather never
\* sees an exception.
StoreAndReport(lost) ==
    /\ conn.pc = "store"
    /\ LET types == FetchTypes(conn.platform)
           documents == Concat([n \in 1..Len(types) |->
                                  RawDocuments(conn.tenant_id, conn.platform, types[n],
                                               conn.fetched[types[n]], types[n] \in lost)])
       IN  /\ lost \subseteq Range(types)
           /\ \A type \in lost : conn.fetched[type] # <<>>
           /\ staging' = staging \o documents
           /\ markedWhen' = markedWhen \o [n \in 1..Len(documents) |-> "none"]
           /\ conn' = [conn EXCEPT
                         !.pc = "done", !.lost = lost,
                         !.report = [returned |-> TRUE, success |-> TRUE,
                                     ingested |-> [type \in Range(types) |->
                                                     Len(conn.fetched[type])]]]
    /\ UNCHANGED <<canonical, etl, rowTx, txstate, faults, metricsVars, platform_api,
                   serviceVars, lateVars>>

\* The platform: what it holds and how it fails.
OrderPages ==
    { << <<NativeOrder("1001", "paid", "d1")>> >>,
      << <<NativeOrder("1001", "paid", "d1")>>, <<NativeOrder("1002", "paid", "d1")>> >>,
      << <<NativeOrder("1001", "paid", "d1"), NativeOrder("1002", "paid", "d1")>>,
         <<NativeOrder("1003", "paid", "d1")>> >>,
      << <<NativeOrder("1001", "paid", "d1")>>, <<NativeOrder("1002", "paid", "d1")>>,
         <<NativeOrder("1003", "paid", "d1")>> >> }

MaxFailed == 4

Faults ==
    {NoFault} \cup
    { [type |-> type, page |-> page, status |-> status, times |-> times,
       retry_after |-> retry_after] :
        type \in {"orders", "products"}, page \in 1..MaxPages,
        status \in {429, 404, 500, 0}, times \in 1..MaxFailed,
        retry_after \in {<<>>, <<1>>} }

InitFetch ==
    /\ staging = <<>>
    /\ canonical = <<>>
    /\ etl = [r \in Runs |-> IdleRun]
    /\ rowTx = <<>>
    /\ txstate = [r \in Runs |-> [b \in 1..MaxBatches |-> "none"]]
    /\ markedWhen = <<>>
    /\ faults = 0
    /\ metrics_daily = <<>>
    /\ save_calls = [t \in Tenants, d \in Dates |-> 0]
    /\ backfill = IdleBackfill
    /\ \E pages \in OrderPages, fault \in Faults :
          /\ fault.page <= (IF fault.type = "orders" THEN Len(pages) ELSE 1)
          /\ fault.status # 429 => fault.retry_after = <<>>
          /\ platform_api =
                [pages |-> [t \in AllTypes |->
                              IF t = "orders" THEN pages
                              ELSE IF t = "products" THEN << <<Product>> >>
                              ELSE IF t = "customers" THEN << <<Customer>> >>
                              ELSE << <<InventoryLevel>> >>],
                 fault |-> fault, served |-> 0]
    /\ conn = IdleConn
    /\ tok = IdleTok
    /\ sched = IdleSched
    /\ LateIdle

NextFetch ==
    \/ \E t \in Tenants, p \in FetchPlatforms : StartIngest(t, p)
    \/ SendRequest
    \/ \E lost \in SUBSET AllTypes : StoreAndReport(lost)

SpecFetch == InitFetch /\ [][NextFetch]_vars

\* ------------------------------------------- token-exchanging connectors

TokenPlatforms == {"walmart", "quickbooks"}

\* timedelta(seconds=token_data["expires_in"] - 300)
TokenMargin == 300

\* The expires_in of a token response, in seconds.
ExpiresIn == {900}

\* The time that passes between two steps of a connector, when any does.
Elapses == {600}

MaxElapses == 1

\* The fetch methods ingest_walmart_data and ingest_quickbooks_data await,
\* in order, up to the first statement that cannot succeed: the fourth
\* Walmart call is fetch_analytics() without its three required arguments.
TokenFetches(platform) ==
    IF platform = "walmart" THEN <<"orders", "inventory", "items">>
    ELSE <<"invoices", "customers", "payments", "items", "balance_sheet",
           "profit_and_loss">>

\* How an endpoint answers one call of _make_request: `status` to its first
\* `times` attempts, 200 to every later one.
Answers ==
    { [status |-> 200, times |-> 0], [status |-> 429, times |-> 1],
      [status |-> 500, times |-> max_attempts] }

Answer(a, attempt_number) ==
    [status |-> IF attempt_number <= a.times THEN a.status ELSE 200,
     retry_after |-> <<>>]

\* BaseHttpService._make_request under @http_retry, from attempt
\* attempt_number on: whether it returns a response, the attempts sent and
\* the seconds slept.
RECURSIVE _make_request(_, _)
_make_request(a, attempt_number) ==
    LET response == Answer(a, attempt_number)
        exc == Raises(response)
    IN  IF exc = "none"
        THEN [ok |-> TRUE, sent |-> attempt_number, slept |-> 0]
        ELSE IF retry_if_exception_type(exc) /\ ~stop_after_attempt(attempt_number)
        THEN LET rest == _make_request(a, attempt_number + 1)
             IN  [rest EXCEPT !.slept = @ + RateLimitSleep(response)
                                          + wait_exponential(attempt_number)]
        ELSE [ok |-> FALSE, sent |-> attempt_number, slept |-> RateLimitSleep(response)]

\* `self._access_token and self._token_expiry and utcnow() < self._token_expiry`
ValidToken(t) == t.access_token # 0 /\ t.now < t.token_expiry

\* Faulty variant of TokenExpiry: the token is kept until the platform
\* lets it expire.
TokenExpiryNoMargin(now, expires_in) == now + expires_in

\* `datetime.utcnow() + timedelta(seconds=token_data["expires_in"] - 300)`
TokenExpiry(now, expires_in) == now + expires_in - TokenMargin

\* The API request of a fetch method goes out with the cached token:
\* _get_walmart_headers reads it right after _get_access_token returns,
\* the QuickBooks Authorization header was set by the last refresh.
\* init_client opens the HTTP client if there is none.
SendApi(t, c) ==
    [t EXCEPT !.client = "open", !.calls[c].pc = "api",
              !.calls[c].token = t.access_token, !.calls[c].sent_at = t.now,
              !.calls[c].expires_at = t.expires_at]

\* The POST to the token endpoint goes out.
SendToken(t, c) ==
    [t EXCEPT !.client = "open", !.token_requests = @ + 1,
              !.calls[c].pc = "token", !.calls[c].asked = TRUE]

\* Leaving `async with self._token_lock`.
Release(t) == [t EXCEPT !.lock = 0]

\* Faulty variant of UnderLock: no second check once the lock is held.
UnderLockUnchecked(t, c) == SendToken(t, c)

\* WalmartService._get_access_token, lines 33-46, with the lock held: the
\* second check, then the token request.
UnderLock(t, c) ==
    IF ValidToken(t) THEN SendApi(Release(t), c) ELSE SendToken(t, c)

\* WalmartService._get_access_token up to its first suspension: the first
\* check; the lock is taken at once when it is free and nobody waits for
\* it, else the call queues for it.
_get_access_token(t, c) ==
    IF ValidToken(t) THEN SendApi(t, c)
    ELSE IF t.lock = 0 /\ t.waiters = <<>> THEN UnderLock([t EXCEPT !.lock = c], c)
    ELSE [t EXCEPT !.calls[c].pc = "lock", !.waiters = Append(@, c)]

\* QuickBooksService._refresh_access_token up to its first suspension: one
\* check and no lock.
_refresh_access_token(t, c) ==
    IF ValidToken(t) THEN SendApi(t, c) ELSE SendToken(t, c)

\* A fetch method is called: _make_walmart_request or
\* _make_quickbooks_request first awaits the token.
Fetch(t, c) ==
    LET called == [t EXCEPT !.calls[c].found_valid = ValidToken(t),
                            !.calls[c].had = t.access_token]
    IN  IF t.platform = "walmart" THEN _get_access_token(called, c)
        ELSE _refresh_access_token(called, c)

\* An exception inside a fetch method: the Walmart methods have no handler
\* and raise it, each QuickBooks method catches it and returns [] or {}.
FetchRaises(t, c) ==
    IF t.platform = "walmart" THEN [t EXCEPT !.calls[c].pc = "raised"]
    ELSE [t EXCEPT !.calls[c].pc = "returned", !.calls[c].result = "empty"]

\* A fetch method is called on the connector while others may be running.
StartFetch(c) ==
    /\ tok.mode = "concurrent"
    /\ tok.calls[c].pc = "idle"
    /\ tok' = Fetch(tok, c)
    /\ UNCHANGED <<staging, canonical, etl, rowTx, txstate, markedWhen, faults,
                   metricsVars, fetchVars, sched, lateVars>>

\* The token request of call c ends.  On a response the token and its
\* expiry are cached, the lock is released and the API request goes out;
\* on an exception both connectors log and re-raise it.
TokenResponse(c, a, expires_in) ==
    /\ tok.calls[c].pc = "token"
    /\ LET out == _make_request(a, 1)
           t1 == [tok EXCEPT !.now = @ + out.slept,
                             !.token_requests = @ + out.sent - 1]
           t2 == [t1 EXCEPT !.access_token = t1.issued + 1, !.issued = @ + 1,
                            !.token_expiry = TokenExpiry(t1.now, expires_in),
                            !.expires_at = t1.now + expires_in]
           left == IF tok.platform = "walmart" THEN Release(t1) ELSE t1
       IN  tok' = IF out.ok
                  THEN SendApi(IF tok.platform = "walmart" THEN Release(t2) ELSE t2, c)
                  ELSE FetchRaises([left EXCEPT !.refresh_failed = TRUE], c)
    /\ UNCHANGED <<staging, canonical, etl, rowTx, txstate, markedWhen, faults,
                   metricsVars, fetchVars, sched, lateVars>>

\* A call that queued for the lock gets it: asyncio.Lock wakes its waiters
\* in the order they came.
LockAcquired(c) ==
    /\ tok.calls[c].pc = "lock"
    /\ tok.lock = 0
    /\ tok.waiters # <<>> /\ Head(tok.waiters) = c
    /\ tok' = UnderLock([tok EXCEPT !.lock = c, !.waiters = Tail(@)], c)
    /\ UNCHANGED <<staging, canonical, etl, rowTx, txstate, markedWhen, faults,
                   metricsVars, fetchVars, sched, lateVars>>

\* The API request of call c ends and its fetch method returns or raises.
ApiResponse(c, a) ==
    /\ tok.calls[c].pc = "api"
    /\ LET out == _make_request(a, 1)
           t1 == [tok EXCEPT !.now = @ + out.slept]
       IN  tok' = IF out.ok
                  THEN [t1 EXCEPT !.calls[c].pc = "returned", !.calls[c].result = "data"]
                  ELSE FetchRaises(t1, c)
    /\ UNCHANGED <<staging, canonical, etl, rowTx, txstate, markedWhen, faults,
                   metricsVars, fetchVars, sched, lateVars>>

\* Time passes.
Elapse(dt) ==
    /\ tok.platform # None
    /\ tok.elapses < MaxElapses
    /\ tok' = [tok EXCEPT !.now = @ + dt, !.elapses = @ + 1]
    /\ UNCHANGED <<staging, canonical, etl, rowTx, txstate, markedWhen, faults,
                   metricsVars, fetchVars, sched, lateVars>>

\* Faulty variant of close_client: the client is left as it is.
leave_client(t) == t

\* BaseHttpService.close_client: `await self.client.aclose()`, then
\* `self.client = None`.
close_client(t) == [t EXCEPT !.client = "none"]

\* _safe_close_service: the connector has close_client.
_safe_close_service(t) == close_client(t)

\* The run leaves ingest_<platform>_data through its finally.
ExitRun(t, report) ==
    [_safe_close_service(t) EXCEPT !.run.pc = "done", !.run.report = report]

FailureReport == [returned |-> TRUE, raised |-> FALSE, success |-> FALSE, ingested |-> <<>>]
RaisedToCaller == [returned |-> FALSE, raised |-> TRUE, success |-> FALSE, ingested |-> <<>>]

\* ingest_walmart_data or ingest_quickbooks_data is called and constructs
\* its connector.
StartTokenIngest(tenant_id) ==
    /\ tok.mode = "ingest"
    /\ tok.run.pc = "idle"
    /\ tok' = [tok EXCEPT !.run.pc = "fetch", !.run.tenant_id = tenant_id,
                          !.run.step = 1]
    /\ UNCHANGED <<staging, canonical, etl, rowTx, txstate, markedWhen, faults,
                   metricsVars, fetchVars, sched, lateVars>>

\* The run awaits its next fetch method.
IngestFetch ==
    /\ tok.run.pc = "fetch"
    /\ tok.calls[1].pc = "idle"
    /\ tok' = Fetch(tok, 1)
    /\ UNCHANGED <<staging, canonical, etl, rowTx, txstate, markedWhen, faults,
                   metricsVars, fetchVars, sched, lateVars>>

\* The fetch method the run awaits is over.  A raised exception is caught by
\* the except of ingest_walmart_data, which returns the failure report; so
\* is the TypeError of fetch_analytics() after the third Walmart fetch.
\* The QuickBooks run goes on to its next fetch and then to storing.
IngestAfterFetch ==
    /\ tok.run.pc = "fetch"
    /\ tok.calls[1].pc \in {"returned", "raised"}
    /\ LET call == tok.calls[1]
           next == [tok EXCEPT !.calls[1] = IdleCall,
                               !.run.results = Append(@, call.result)]
       IN  tok' = IF call.pc = "raised" THEN ExitRun(tok, FailureReport)
                  ELSE IF tok.run.step < Len(TokenFetches(tok.platform))
                  THEN [next EXCEPT !.run.step = @ + 1]
                  ELSE IF tok.platform = "walmart" THEN ExitRun(next, FailureReport)
                  ELSE [next EXCEPT !.run.pc = "store"]
    /\ UNCHANGED <<staging, canonical, etl, rowTx, txstate, markedWhen, faults,
                   metricsVars, fetchVars, sched, lateVars>>

\* An entity of a QuickBooks query response.
Entity(type) == [kind |-> type, id |-> "q1", financial_status |-> None, created_at |-> None]

\* The six _store_raw_data_batched calls of ingest_quickbooks_data, then its
\* report.  The four lists are stored one after the other.  A report that
\* was fetched is a non-empty dict: `data[i:i+self.batch_size]` raises on
\* it, outside the try of _store_raw_data_batched, and the except of
\* ingest_quickbooks_data re-raises to the caller.  Without a report both
\* dicts are empty and the run returns success, with 1 for each report.
IngestStore ==
    /\ tok.run.pc = "store"
    /\ LET types == TokenFetches(tok.platform)
           results == tok.run.results
           documents == Concat([n \in 1..4 |->
                                  IF results[n] = "data"
                                  THEN <<RawDocument(tok.run.tenant_id, tok.platform, types[n],
                                                     DictPayload(Entity(types[n])))>>
                                  ELSE <<>>])
           raises == results[5] = "data" \/ results[6] = "data"
       IN  /\ staging' = staging \o documents
           /\ markedWhen' = markedWhen \o [n \in 1..Len(documents) |-> "none"]
           /\ tok' = ExitRun(tok,
                        IF raises THEN RaisedToCaller
                        ELSE [returned |-> TRUE, raised |-> FALSE, success |-> TRUE,
                              ingested |-> [n \in 1..6 |->
                                              IF n > 4 \/ results[n] = "data" THEN 1 ELSE 0]])
    /\ UNCHANGED <<canonical, etl, rowTx, txstate, faults, metricsVars, fetchVars, sched, lateVars>>

InitToken ==
    /\ staging = <<>>
    /\ canonical = <<>>
    /\ etl = [r \in Runs |-> IdleRun]
    /\ rowTx = <<>>
    /\ txstate = [r \in Runs |-> [b \in 1..MaxBatches |-> "none"]]
    /\ markedWhen = <<>>
    /\ faults = 0
    /\ metrics_daily = <<>>
    /\ save_calls = [t \in Tenants, d \in Dates |-> 0]
    /\ backfill = IdleBackfill
    /\ platform_api = QuietApi
    /\ conn = IdleConn
    /\ \E platform \in TokenPlatforms, mode \in {"ingest", "concurrent"} :
          tok = [IdleTok EXCEPT !.platform = platform, !.mode = mode]
    /\ sched = IdleSched
    /\ LateIdle

NextToken ==
    \/ \E c \in Calls : StartFetch(c)
    \/ \E c \in Calls, a \in Answers, expires_in \in ExpiresIn : TokenResponse(c, a, expires_in)
    \/ \E c \in Calls : LockAcquired(c)
    \/ \E c \in Calls, a \in Answers : ApiResponse(c, a)
    \/ \E dt \in Elapses : Elapse(dt)
    \/ \E t \in Tenants : StartTokenIngest(t)
    \/ IngestFetch
    \/ IngestAfterFetch
    \/ IngestStore

SpecToken == InitToken /\ [][NextToken]_vars

\* --------------------------------------------------------------- scheduler

\* The names bound at module level of scheduler_service.py: what it
\* imports, logger and the class.  The job functions are defined inside
\* the body of SchedulerService, so they are attributes of the class and no
\* module-level names; the per-tenant functions are neither defined nor
\* imported.
ModuleGlobals ==
    {"AsyncIOScheduler", "AsyncIOExecutor", "IntervalTrigger", "RedisJobStore",
     "CronTrigger", "AsyncSessionLocal", "get_mongodb", "select", "update",
     "get_loggers", "Tenant", "PlatformIntegration", "logger", "settings",
     "SchedulerService"}

\* Evaluating a name that is no local variable.
NameError(name) == name \notin ModuleGlobals

\* The five add_job statements of _register_jobs, in order.  accepted: the
\* keyword arguments are ones CronTrigger and add_job take (not `hours=` for
\* CronTrigger, not `ame=` for add_job).
GlobalJobs ==
    << [func |-> "sync_all_tenants_full", id |-> <<"full_sync_all_tenants">>,
        trigger |-> "interval hours=6", accepted |-> TRUE],
       [func |-> "sync_all_tenant_orders", id |-> <<"orders_sync_all_tenants">>,
        trigger |-> "interval hours=1", accepted |-> TRUE],
       [func |-> "calculate_daily_metrics_all_tenants", id |-> <<"daily_metrics_calculation">>,
        trigger |-> "cron hours=2 minute=0", accepted |-> FALSE],
       [func |-> "sync_all_tenants_inventory", id |-> <<"inventory_sync_all_tenants">>,
        trigger |-> "interval hours=4", accepted |-> FALSE],
       [func |-> "sync_all_tenants_quickbooks", id |-> <<"quickbooks_sync_all_tenants">>,
        trigger |-> "cron hour=3 minute=0", accepted |-> TRUE] >>

Job(func, id, trigger) == [func |-> func, id |-> id, trigger |-> trigger]

\* The job store's add_job under replace_existing=True: a job with the id is
\* updated in place, else the job is added.
_real_add_job(jobstore, job) ==
    IF \E n \in 1..Len(jobstore) : jobstore[n].id = job.id
    THEN [n \in 1..Len(jobstore) |-> IF jobstore[n].id = job.id THEN job ELSE jobstore[n]]
    ELSE Append(jobstore, job)

\* self._scheduler.add_job(..., replace_existing=True): a scheduler that is
\* not running appends the job to its pending jobs, a running one puts it in
\* the job store.
add_job(s, job) ==
    IF s.running THEN [s EXCEPT !.jobstore = _real_add_job(@, job)]
    ELSE [s EXCEPT !.pending = Append(@, job)]

\* _register_jobs from its n-th statement on: the statement that raises
\* ends it.
RECURSIVE _register_jobs(_, _)
_register_jobs(s, n) ==
    IF n > Len(GlobalJobs) THEN [sched |-> s, raised |-> FALSE]
    ELSE IF NameError(GlobalJobs[n].func) \/ ~GlobalJobs[n].accepted
    THEN [sched |-> s, raised |-> TRUE]
    ELSE _register_jobs(add_job(s, Job(GlobalJobs[n].func, GlobalJobs[n].id,
                                       GlobalJobs[n].trigger)), n + 1)

RECURSIVE AddAll(_, _)
AddAll(jobstore, jobs) ==
    IF jobs = <<>> THEN jobstore
    ELSE AddAll(_real_add_job(jobstore, Head(jobs)), Tail(jobs))

\* SchedulerService.start: the jobs are registered and the scheduler is
\* started, which moves its pending jobs to the job store; an exception of
\* _register_jobs leaves start before the scheduler is started.
start(s) ==
    IF s.running THEN [sched |-> s, raised |-> FALSE]
    ELSE LET registered == _register_jobs(s, 1)
         IN  IF registered.raised THEN registered
             ELSE [sched |-> [registered.sched EXCEPT
                                !.running = TRUE, !.pending = <<>>,
                                !.jobstore = AddAll(@, registered.sched.pending)],
                   raised |-> FALSE]

\* job_id=f"sync_{tenant_id}_{platform}"
TenantJobId(tenant_id, platform) == <<"sync", tenant_id, platform>>

\* SchedulerService.add_tenant_sync_job.
add_tenant_sync_job(s, tenant_id, platform, schedule) ==
    IF NameError("sync_single_tenant_platform") THEN [sched |-> s, raised |-> TRUE]
    ELSE [sched |-> add_job(s, Job("sync_single_tenant_platform",
                                   TenantJobId(tenant_id, platform), schedule)),
          raised |-> FALSE]

\* A sequence without its first element that satisfies the id, if any.
RECURSIVE Without(_, _)
Without(jobs, job_id) ==
    IF jobs = <<>> THEN <<>>
    ELSE IF Head(jobs).id = job_id THEN Tail(jobs)
    ELSE <<Head(jobs)>> \o Without(Tail(jobs), job_id)

\* SchedulerService.remove_job: the scheduler removes the job from its
\* pending jobs when it is not running, from the job store when it is; the
\* JobLookupError of an unknown id is caught and logged.
remove_job(s, job_id) ==
    IF s.running THEN [s EXCEPT !.jobstore = Without(@, job_id)]
    ELSE [s EXCEPT !.pending = Without(@, job_id)]

MaxSchedCalls == 3

Crontabs == {"0 * * * *", "30 2 * * *"}

Called(s, call, job_id, schedule, raised) ==
    [s EXCEPT !.calls = @ + 1,
              !.last = [call |-> call, job_id |-> job_id, schedule |-> schedule,
                        raised |-> raised]]

Start ==
    /\ sched.calls < MaxSchedCalls
    /\ LET out == start(sched)
       IN  sched' = Called(out.sched, "start", <<>>, None, out.raised)
    /\ UNCHANGED <<staging, canonical, etl, rowTx, txstate, markedWhen, faults,
                   metricsVars, fetchVars, tok, lateVars>>

AddTenantSyncJob(tenant_id, platform, schedule) ==
    /\ sched.calls < MaxSchedCalls
    /\ LET out == add_tenant_sync_job(sched, tenant_id, platform, schedule)
       IN  sched' = Called(out.sched, "add_tenant_sync_job",
                           TenantJobId(tenant_id, platform), schedule, out.raised)
    /\ UNCHANGED <<staging, canonical, etl, rowTx, txstate, markedWhen, faults,
                   metricsVars, fetchVars, tok, lateVars>>

RemoveJob(job_id) ==
    /\ sched.calls < MaxSchedCalls
    /\ sched' = Called(remove_job(sched, job_id), "remove_job", job_id, None, FALSE)
    /\ UNCHANGED <<staging, canonical, etl, rowTx, txstate, markedWhen, faults,
                   metricsVars, fetchVars, tok, lateVars>>

\* The job functions that loop over the rows they select, with the function
\* each awaits per row.
FanOutJobs ==
    [sync_all_tenants_full |-> "sync_tenant_all_platforms",
     sync_all_tenants_orders |-> "sync_tenant_orders_only",
     sync_all_tenants_inventory |-> "sync_tenant_inventory_only",
     sync_all_tenants_quickbooks |-> "sync_quickbooks_for_tenant",
     scheduled_daily_metrics |-> "calculate_daily_metrics_task"]

JobFunctions == DOMAIN FanOutJobs \cup {"calculate_daily_metrics_all_tenants"}

\* target_date = (datetime.utcnow()-timedelta(days=1)).date()
TargetDate == "d1"

\* The names a statement inside the loop of a job function can read beside
\* the module's: its loop variable, and for scheduled_daily_metrics the
\* function defined in its own module.
LoopNames(name) ==
    IF name = "sync_all_tenants_quickbooks" THEN {"intengration", "db"}
    ELSE IF name = "scheduled_daily_metrics" THEN {"tenant", "calculate_daily_metrics_task"}
    ELSE {"tenant", "db"}

\* The names the awaited call of the loop body reads, and the names the
\* except handler of the loop reads.
BodyReads(name) ==
    IF name = "sync_all_tenants_quickbooks"
    THEN {FanOutJobs[name], "intengration", "integration", "db"}
    ELSE IF name = "scheduled_daily_metrics" THEN {FanOutJobs[name], "tenant"}
    ELSE {FanOutJobs[name], "tenant", "db"}

HandlerReads(name) ==
    IF name = "sync_all_tenants_quickbooks" THEN {"logger", "integration"}
    ELSE {"logger", "tenant"}

Unbound(name, reads) == \E n \in reads : n \notin LoopNames(name) /\ NameError(n)

\* The scheduler calls a job function.  calculate_daily_metrics_all_tenants
\* logs one line and returns.
FireJob(name) ==
    /\ sched.job.pc = "idle"
    /\ sched' = [sched EXCEPT
                   !.job = IF name = "calculate_daily_metrics_all_tenants"
                           THEN [IdleJob EXCEPT !.name = name, !.pc = "done"]
                           ELSE [IdleJob EXCEPT !.name = name, !.pc = "loop", !.i = 1]]
    /\ UNCHANGED <<staging, canonical, etl, rowTx, txstate, markedWhen, faults,
                   metricsVars, fetchVars, tok, lateVars>>

\* One round of the loop of a job function.  The sync jobs await the
\* per-tenant function inside try/except: an exception (of the function, or
\* the NameError of a name the call reads) goes to the handler, which logs
\* and continues unless a name it reads is unbound, and then the NameError
\* leaves the job function.  scheduled_daily_metrics awaits
\* calculate_daily_metrics_task, which returns a bool and never raises.
JobStep(fails) ==
    /\ sched.job.pc = "loop"
    /\ sched.job.i <= Len(sched.tenants)
    /\ LET job == sched.job
           name == job.name
           tried == [job EXCEPT !.tried = @ \cup {job.i}]
       IN  IF name = "scheduled_daily_metrics"
           THEN /\ SaveDailyMetrics(sched.tenants[job.i], TargetDate)
                /\ sched' = [sched EXCEPT !.job = [tried EXCEPT !.i = @ + 1]]
           ELSE /\ UNCHANGED <<metrics_daily, save_calls>>
                /\ sched' = [sched EXCEPT !.job =
                      IF ~(fails \/ Unbound(name, BodyReads(name)))
                      THEN [tried EXCEPT !.i = @ + 1]
                      ELSE IF Unbound(name, HandlerReads(name))
                      THEN [tried EXCEPT !.pc = "done", !.raised = TRUE]
                      ELSE [tried EXCEPT !.i = @ + 1, !.caught = @ \cup {job.i}]]
    /\ UNCHANGED <<staging, canonical, etl, rowTx, txstate, markedWhen, faults,
                   backfill, fetchVars, tok, lateVars>>

\* The loop is over and the job function returns.
JobReturn ==
    /\ sched.job.pc = "loop"
    /\ sched.job.i > Len(sched.tenants)
    /\ sched' = [sched EXCEPT !.job.pc = "done"]
    /\ UNCHANGED <<staging, canonical, etl, rowTx, txstate, markedWhen, faults,
                   metricsVars, fetchVars, tok, lateVars>>

\* The rows of the tenants table, which are also the owners of the active
\* QuickBooks integrations.
TenantRows == <<"t1", "t2", "t3">>

InitSched ==
    /\ staging = <<>>
    /\ canonical \in {<<>>} \cup SeqsUpTo(MetricsRows, 1)
    /\ etl = [r \in Runs |-> IdleRun]
    /\ rowTx = [n \in 1..Len(canonical) |-> NoTx]
    /\ txstate = [r \in Runs |-> [b \in 1..MaxBatches |-> "none"]]
    /\ markedWhen = <<>>
    /\ faults = 0
    /\ metrics_daily = <<>>
    /\ save_calls = [t \in Range(TenantRows), d \in Dates |-> 0]
    /\ backfill = IdleBackfill
    /\ platform_api = QuietApi
    /\ conn = IdleConn
    /\ tok = IdleTok
    /\ \E n \in 1..Len(TenantRows) :
          sched = [IdleSched EXCEPT !.tenants = SubSeq(TenantRows, 1, n)]
    /\ LateIdle

NextSched ==
    \/ Start
    \/ \E t \in Range(TenantRows), p \in FetchPlatforms, schedule \in Crontabs :
          AddTenantSyncJob(t, p, schedule)
    \/ \E n \in 1..Len(GlobalJobs) : RemoveJob(GlobalJobs[n].id)
    \/ \E t \in Range(TenantRows), p \in FetchPlatforms : RemoveJob(TenantJobId(t, p))
    \/ \E name \in JobFunctions : FireJob(name)
    \/ \E fails \in BOOLEAN : JobStep(fails)
    \/ JobReturn

SpecSched == InitSched /\ [][NextSched]_vars

\* ------------------------------------------------- Amazon pagination loop

PagedFetches == {"fetch_orders", "fetch_inventory"}

\* The platform serves MaxPages distinct pages; the NextToken of a page may
\* name any page, also itself or an earlier one, and any request may fail
\* for good (the retries of _make_request are exhausted).
ServedPages ==
    [1..MaxPages -> [next_token : 0..MaxPages, ok : BOOLEAN]]

\* fetch_orders / fetch_inventory called: next_token = None, the first
\* request carries no token and is answered with the first page.
StartPagedFetch(fetch) ==
    /\ pager.pc = "idle"
    /\ pager' = [pager EXCEPT !.pc = "loop", !.fetch = fetch, !.at = 1]
    /\ UNCHANGED <<staging, canonical, etl, rowTx, txstate, markedWhen, faults,
                   metricsVars, fetchVars, serviceVars, calc, sync, auth>>

\* One pass of `while True`, up to the await: the request for the page is
\* sent, with NextToken when one is held.
RequestPage ==
    /\ pager.pc = "loop"
    /\ pager' = [pager EXCEPT !.pc = "await"]
    /\ UNCHANGED <<staging, canonical, etl, rowTx, txstate, markedWhen, faults,
                   metricsVars, fetchVars, serviceVars, calc, sync, auth>>

\* The rest of the pass: on an exception the except branch logs and breaks;
\* otherwise the items are collected, next_token is read from the payload,
\* and the loop breaks only when it is empty.  Nothing compares next_token
\* with the tokens already used.
PageResponse ==
    /\ pager.pc = "await"
    /\ LET response == pager.served[pager.at]
       IN  pager' =
             IF ~response.ok
             THEN [pager EXCEPT !.pc = "done"]
             ELSE IF response.next_token = 0
             THEN [pager EXCEPT !.pc = "done", !.visited = @ \cup {pager.at}]
             ELSE [pager EXCEPT !.pc = "loop",
                                !.at = response.next_token,
                                !.visited = @ \cup {pager.at},
                                !.repeated = @ \/ pager.at \in pager.visited]
    /\ UNCHANGED <<staging, canonical, etl, rowTx, txstate, markedWhen, faults,
                   metricsVars, fetchVars, serviceVars, calc, sync, auth>>

InitPager ==
    /\ staging = <<>>
    /\ canonical = <<>>
    /\ etl = [r \in Runs |-> IdleRun]
    /\ rowTx = <<>>
    /\ txstate = [r \in Runs |-> [b \in 1..MaxBatches |-> "none"]]
    /\ markedWhen = <<>>
    /\ faults = 0
    /\ metrics_daily = <<>>
    /\ save_calls = [t \in Tenants, d \in Dates |-> 0]
    /\ backfill = IdleBackfill
    /\ platform_api = QuietApi
    /\ conn = IdleConn
    /\ tok = IdleTok
    /\ sched = IdleSched
    /\ calc = IdleCalc
    /\ sync = IdleSync
    /\ auth = IdleAuth
    /\ \E served \in ServedPages : pager = [IdlePager EXCEPT !.served = served]

NextPager ==
    \/ \E fetch \in PagedFetches : StartPagedFetch(fetch)
    \/ RequestPage
    \/ PageResponse

\* Every request is answered, and the event loop runs the coroutine
\* whenever its request has been answered.
SpecPager ==
    /\ InitPager
    /\ [][NextPager]_vars
    /\ WF_vars(RequestPage)
    /\ WF_vars(PageResponse)

\* ------------------------------------------------------ login and logout

Users == {"u1", "u2"}

MaxTokens == 2
MaxClock == 3

\* The lifetime of an access token (settings.ACCESS_TOKEN_EXPIRE_MINUTES), in
\* ticks of the clock.
TokenLifetime == 2

\* AuthService.create_access_token: the claims of the token.
create_access_token(user_id, now) ==
    [user_id |-> user_id, type |-> "access_token", iat |-> now,
     exp |-> now + TokenLifetime, jti |-> <<user_id, now>>]

\* AuthService.verify_token: the signature and the expiry (jwt.decode with
\* verify_exp), the type, the fields and the user; the users of this model
\* stay active.  The blacklist is not read.
verify_token(token, now) ==
    /\ token.exp > now
    /\ token.type = "access_token"

\* POST /auth/login answered with a new access token.
Login(user_id) ==
    /\ Len(auth.issued) < MaxTokens
    /\ auth' = [auth EXCEPT !.issued = Append(@, create_access_token(user_id, auth.now))]
    /\ UNCHANGED <<staging, canonical, etl, rowTx, txstate, markedWhen, faults,
                   metricsVars, fetchVars, serviceVars, calc, sync, pager>>

\* POST /auth/logout with token n.  get_current_user answers 401 unless
\* verify_token accepts the token; the handler then sets blacklist:{jti}
\* with the token's remaining lifetime when Redis is there (a failure is
\* logged) and answers "Token has been revoked" either way.
Logout(n, redis_client) ==
    /\ n \in 1..Len(auth.issued)
    /\ n \notin auth.revoked
    /\ LET token == auth.issued[n]
       IN  auth' =
             IF ~verify_token(token, auth.now)
             THEN [auth EXCEPT !.rejected = @ \cup {n}]
             ELSE [auth EXCEPT
                     !.blacklist = IF redis_client
                                   THEN @ \cup {[jti |-> token.jti, until |-> token.exp]}
                                   ELSE @,
                     !.revoked = @ \cup {n}]
    /\ UNCHANGED <<staging, canonical, etl, rowTx, txstate, markedWhen, faults,
                   metricsVars, fetchVars, serviceVars, calc, sync, pager>>

\* Any request to a route that depends on get_current_user, carrying token
\* n: 401 unless verify_token returns the token's data.
Request(n) ==
    /\ n \in 1..Len(auth.issued)
    /\ LET token == auth.issued[n]
       IN  auth' =
             IF verify_token(token, auth.now)
             THEN [auth EXCEPT !.accepted = @ \cup {n},
                               !.accepted_revoked =
                                   IF n \in auth.revoked THEN @ \cup {n} ELSE @]
             ELSE [auth EXCEPT !.rejected = @ \cup {n}]
    /\ UNCHANGED <<staging, canonical, etl, rowTx, txstate, markedWhen, faults,
                   metricsVars, fetchVars, serviceVars, calc, sync, pager>>

\* Time passes.
Tick ==
    /\ auth.now < MaxClock
    /\ auth' = [auth EXCEPT !.now = @ + 1]
    /\ UNCHANGED <<staging, canonical, etl, rowTx, txstate, markedWhen, faults,
                   metricsVars, fetchVars, serviceVars, calc, sync, pager>>

NextAuth ==
    \/ \E user_id \in Users : Login(user_id)
    \/ \E n \in 1..MaxTokens, redis_client \in BOOLEAN : Logout(n, redis_client)
    \/ \E n \in 1..MaxTokens : Request(n)
    \/ Tick

SpecAuth == Init /\ [][NextAuth]_vars

\* ---------------------------------------------------------- two tenants

\* Two tenants whose staged shopify orders carry the same external ids; two
\* ETLServices transform either tenant's documents in any interleaving
\* while daily metrics are calculated for either tenant.  The store never
\* fails.
TwoTenants == {"t1", "t2"}

TenantDocs ==
    { RawDocument(t, "shopify", "orders", ListPayload(<<NativeOrder(id, "paid", "d1")>>)) :
        t \in TwoTenants, id \in {"1001"} }

InitTenants ==
    /\ staging \in SeqsUpTo(TenantDocs, MaxDocs - 1)
    /\ canonical = <<>>
    /\ etl = [r \in Runs |-> IdleRun]
    /\ rowTx = <<>>
    /\ txstate = [r \in Runs |-> [b \in 1..MaxBatches |-> "none"]]
    /\ markedWhen = [n \in 1..Len(staging) |-> "none"]
    /\ faults = 0
    /\ metrics_daily = <<>>
    /\ save_calls = [t \in Tenants, d \in Dates |-> 0]
    /\ backfill = IdleBackfill
    /\ platform_api = QuietApi
    /\ conn = IdleConn
    /\ tok = IdleTok
    /\ sched = IdleSched
    /\ LateIdle

NextTenants ==
    \/ \E r \in Runs :
          \/ \E t \in TwoTenants : StartRun(r, t, "shopify")
          \/ ProcessDocument(r)
          \/ CommitBatch(r)
          \/ MarkProcessed(r)
    \/ \E t \in TwoTenants, d \in Dates : StartCalculate(t, d)
    \/ PlatformBreakdown

SpecTenants == InitTenants /\ [][NextTenants]_vars

\* ------------------------------------------------------- run_platform_sync

MaxSyncRuns == 2

\* The positional parameters, besides self, of the two constructors.
DataIngestionServiceParams == <<>>
ETLServiceParams == <<"db">>

\* Calling a class with fewer or more positional arguments than its
\* __init__ takes raises TypeError.
TypeError(params, args) == Len(args) # Len(params)

\* run_platform_sync is called as a background task; line 51 constructs the
\* DataIngestionService.
RunPlatformSync(tenant_id, platform) ==
    /\ sync.pc \in {"idle", "raised", "returned"}
    /\ sync.runs[platform] < MaxSyncRuns
    /\ sync' = [IdleSync EXCEPT
                  !.tenant_id = tenant_id, !.platform = platform,
                  !.runs = [sync.runs EXCEPT ![platform] = @ + 1],
                  !.ingestion_service = ~TypeError(DataIngestionServiceParams, <<>>),
                  !.pc = IF TypeError(DataIngestionServiceParams, <<>>)
                         THEN "raised" ELSE "line52",
                  !.raised = IF TypeError(DataIngestionServiceParams, <<>>)
                             THEN "TypeError" ELSE None]
    /\ UNCHANGED <<staging, canonical, etl, rowTx, txstate, markedWhen, faults,
                   metricsVars, fetchVars, serviceVars, calc, pager, auth>>

\* Line 52, before the try: ETLService() is called with no argument.  The
\* TypeError leaves the function; neither service has been asked anything.
ConstructETLService ==
    /\ sync.pc = "line52"
    /\ sync' = IF TypeError(ETLServiceParams, <<>>)
               THEN [sync EXCEPT !.pc = "raised", !.raised = "TypeError"]
               ELSE [sync EXCEPT !.pc = "try", !.etl_service = TRUE]
    /\ UNCHANGED <<staging, canonical, etl, rowTx, txstate, markedWhen, faults,
                   metricsVars, fetchVars, serviceVars, calc, pager, auth>>

InitSync ==
    /\ staging = <<>>
    /\ canonical = <<>>
    /\ etl = [r \in Runs |-> IdleRun]
    /\ rowTx = <<>>
    /\ txstate = [r \in Runs |-> [b \in 1..MaxBatches |-> "none"]]
    /\ markedWhen = <<>>
    /\ faults = 0
    /\ metrics_daily = <<>>
    /\ save_calls = [t \in Tenants, d \in Dates |-> 0]
    /\ backfill = IdleBackfill
    /\ platform_api = QuietApi
    /\ conn = IdleConn
    /\ tok = IdleTok
    /\ sched = IdleSched
    /\ LateIdle

NextSync ==
    \/ \E t \in Tenants, p \in SyncPlatforms : RunPlatformSync(t, p)
    \/ ConstructETLService

SpecSync == InitSync /\ [][NextSync]_vars

\* ------------------------------------------------------------------ claims

Key(row) == <<row.tenant_id, row.platform, row.external_order_id>>

RowsWithKey(key) == { n \in 1..Len(canonical) : Key(canonical[n]) = key }

WellFormed(o) == o.kind = "order" /\ o.id # None /\ o.created_at # None

\* The natural keys of the well-formed orders of a staged 'orders' document.
DocKeys(doc) ==
    IF doc.data_type = "orders"
    THEN { <<doc.tenant_id, doc.platform, doc.payload.items[n].id>> :
             n \in { m \in 1..Len(doc.payload.items) : WellFormed(doc.payload.items[m]) } }
    ELSE {}

StagedKeys == UNION { DocKeys(staging[d]) : d \in 1..Len(staging) }

\* C1: in every reachable state no two CanonicalOrder rows share the same
\* (tenant, platform, external order id).
C1_NaturalKeyUnique ==
    \A m, n \in 1..Len(canonical) :
        m # n => Key(canonical[m]) # Key(canonical[n])

\* C2: after process_platform_data has run twice over the same staged order
\* documents, the second time because the first run did not mark them, the
\* canonical store holds exactly one row per distinct natural key staged.
C2_RetryLeavesOnePerKey ==
    (etl["etl1"].pc = "done" /\ etl["etl1"].result.success /\ faults = 0)
        => \A key \in StagedKeys : Cardinality(RowsWithKey(key)) = 1

\* The staged documents are Shopify 'orders' documents as the coordinator
\* writes them, with pairwise distinct external ids.
AsIngested ==
    /\ \A d \in 1..Len(staging) :
          /\ staging[d].data_type = "orders"
          /\ staging[d].platform = "shopify"
          /\ staging[d].payload.shape = "dict"
    /\ \A c, d \in 1..Len(staging) :
          c # d => staging[c].payload.items[1].id # staging[d].payload.items[1].id

\* C3: from an empty canonical store, one run over n documents staged by the
\* coordinator with n distinct external ids creates exactly n rows, one per id.
C3_OneRunCreatesOneRowPerOrder ==
    (AsIngested /\ etl["etl1"].pc = "done")
        => /\ Len(canonical) = Len(staging)
           /\ \A key \in StagedKeys : Cardinality(RowsWithKey(key)) = 1

\* No external id is staged twice: not in two documents, not twice in one.
StagedOnce ==
    /\ \A c, d \in 1..Len(staging) : c # d => DocKeys(staging[c]) \cap DocKeys(staging[d]) = {}
    /\ \A d \in 1..Len(staging) :
          staging[d].data_type = "orders"
              => Cardinality(DocKeys(staging[d])) = Len(staging[d].payload.items)

\* C4: when two runs interleave over the same unprocessed order documents,
\* each order staged once, the canonical store has at most one row per
\* natural key once both runs have returned.
C4_InterleavedRunsKeepKeysUnique ==
    (StagedOnce /\ \A r \in Runs : etl[r].pc = "done")
        => \A key \in StagedKeys : Cardinality(RowsWithKey(key)) <= 1

NumBatches(n) == (n + batch_size - 1) \div batch_size

Settled(r, b) == txstate[r][b] \in {"committed", "aborted"}

\* C5: when the transaction of a batch fails, no row transformed in that
\* batch is in the canonical store, no document is marked processed on the
\* strength of that batch, and the run goes on to every later batch.
C5_FailedBatchIsolated ==
    /\ \A n \in 1..Len(rowTx) :
          rowTx[n] # NoTx => txstate[rowTx[n][1]][rowTx[n][2]] # "aborted"
    /\ \A d \in 1..Len(staging) : markedWhen[d] # "aborted"
    /\ \A r \in Runs :
          /\ etl[r].pc \in {"doc", "commit"}
                => \A b \in 1..(BatchNo(etl[r].i) - 1) : Settled(r, b)
          /\ etl[r].pc = "mark"
                => \A b \in 1..NumBatches(Len(etl[r].raw_data)) : Settled(r, b)
          /\ (etl[r].pc = "done" /\ etl[r].result.success)
                => \A b \in 1..NumBatches(etl[r].result.total_available) : Settled(r, b)

C5_Witness ==
    /\ etl["etl1"].pc = "done" /\ etl["etl1"].result.success
    /\ txstate["etl1"][1] = "aborted" /\ txstate["etl1"][2] = "committed"
    /\ Len(staging) = 3
    /\ staging[1].payload = ListPayload(<<NativeOrder("1001", "paid", "d1")>>)
    /\ ~staging[1].processed /\ ~staging[2].processed /\ staging[3].processed
    /\ RowsWithKey(<<"t1", "shopify", "1001">>) = {}

\* C6: a staged document is processed only if the batch it was marked for
\* had committed when it was marked.
C6_ProcessedOnlyAfterCommit ==
    \A d \in 1..Len(staging) : staging[d].processed => markedWhen[d] = "committed"

C6_Witness ==
    /\ Len(staging) = 3
    /\ staging[1].processed /\ staging[2].processed /\ ~staging[3].processed
    /\ txstate["etl1"][2] = "aborted"

\* C7: whenever a staged 'orders' document of shopify or amazon is marked
\* processed, every well-formed order of its payload is in the canonical store.
C7_NoStagedOrderLost ==
    \A d \in 1..Len(staging) :
        (staging[d].processed /\ staging[d].platform \in {"shopify", "amazon"})
            => \A key \in DocKeys(staging[d]) : RowsWithKey(key) # {}

\* C9: a transform step never changes a row already in the canonical store,
\* whatever the re-ingested payload carries.
C9_ExistingOrderUnchanged ==
    [][/\ Len(canonical') >= Len(canonical)
       /\ \A n \in 1..Len(canonical) : canonical'[n] = canonical[n]]_vars

C9_Witness ==
    /\ Len(canonical) = 1
    /\ canonical[1].external_order_id = "1001" /\ canonical[1].financial_status = "paid"
    /\ \E d \in 1..Len(staging) :
          /\ staging[d].processed
          /\ staging[d].payload = ListPayload(<<NativeOrder("1001", "refunded", "d1")>>)

\* C8: under fair scheduling of the runs and finitely many store failures
\* and crashes, every staged document is eventually marked processed.
C8_EveryDocumentEventuallyProcessed ==
    \A d \in 1..MaxDocs :
        (Len(staging) >= d) ~> (Len(staging) >= d /\ staging[d].processed)

C8_Witness ==
    /\ faults = 0
    /\ Len(staging) = MaxDocs
    /\ \A d \in 1..MaxDocs : staging[d].processed
    /\ \E d \in 1..MaxDocs : staging[d].data_type = "customers"

\* The platforms with an order of the tenant-day.
PlatformsOn(db, tenant_id, target_date) ==
    LET orders == OrdersOn(db, tenant_id, target_date)
    IN  { orders[n].platform : n \in 1..Len(orders) }

MetricRowsFor(tenant_id, date, platform) ==
    { n \in 1..Len(metrics_daily) :
        MetricKey(metrics_daily[n]) = <<tenant_id, date, platform>> }

\* C10: after two save_metrics calls for the same (tenant, date) the metrics
\* store holds exactly one overall record and exactly one record per
\* platform of that tenant-day.
C10_SaveTwiceLeavesOneRecordEach ==
    \A t \in Tenants, d \in Dates :
        save_calls[t, d] = 2
            => /\ Cardinality(MetricRowsFor(t, d, Overall)) = 1
               /\ \A p \in PlatformsOn(canonical, t, d) :
                     Cardinality(MetricRowsFor(t, d, p)) = 1

\* C11: after save_metrics has been called again for a (tenant, date), the
\* call has succeeded and the metrics store holds the overall and the
\* per-platform records with the values just computed.
C11_SaveOverwritesStoredRecords ==
    \A t \in Tenants, d \in Dates :
        save_calls[t, d] = 2
            => LET records == MetricRecords(calculate_metrics_daily(canonical, t, d))
               IN  \A n \in 1..Len(records) :
                     \E m \in 1..Len(metrics_daily) : metrics_daily[m] = records[n]

\* C12: a day of a backfill that fails does not stop the range: every day
\* of the range passed so far had its calculation run rather than refused
\* on account of an earlier day, and was saved unless it failed itself.
C12_BackfillContinuesPastFailure ==
    backfill.pc \in {"loop", "save", "done"}
        => \A d \in backfill.start_date..(backfill.current_date - 1) :
              /\ d \in backfill.attempted
              /\ d \notin backfill.refused
              /\ d \notin backfill.failed => d \in backfill.saved

\* C13: when a backfill has returned, its report lists exactly the days of
\* the range whose calculation or save failed.
C13_ReportListsFailedDates ==
    backfill.pc = "done"
        => BackfillReport(backfill).failed_dates = backfill.failed

\* C14: aggregate_orders raises no division error; with no order its aov is
\* 0 and otherwise its aov is net_sales / total_orders.
C14_AovIsGuardedQuotient ==
    backfill.metrics # <<>>
        => LET overall == backfill.metrics[1].overall
           IN  /\ overall.aov.den # 0
               /\ overall.total_orders = 0 => overall.aov.num = 0
               /\ overall.total_orders # 0
                     => overall.aov.num * overall.total_orders
                            = overall.net_sales * overall.aov.den

C14_Witness ==
    /\ backfill.pc = "save"
    /\ backfill.metrics[1].overall.total_orders = 0

\* The items the platform holds for a data type, in page order.
AllItems(type) == Concat(platform_api.pages[type])

\* Every fetch of the ingestion run has returned.
FetchesOver == conn.pc \in {"store", "done"}

\* The request the platform is set to fail was sent at least once.
FaultMet == conn.sent[platform_api.fault.type][platform_api.fault.page] >= 1

\* What a fetch returns from a platform that never fails: every page from
\* the Amazon connector, the first response from the Shopify connector.
Unfailing(platform, type) ==
    IF platform = "amazon" THEN AllItems(type)
    ELSE IF platform_api.pages[type] = <<>> THEN <<>>
    ELSE platform_api.pages[type][1]

\* C15: when the platform serves k pages of orders and never fails, the
\* fetch_orders of each connector returns every item of every page once, in
\* page order.
C15_FetchOrdersDrainsAllPages ==
    (FetchesOver /\ platform_api.fault = NoFault)
        => conn.fetched["orders"] = AllItems("orders")

\* C16: when the platform answers one request with 429 and Retry-After = r
\* and the re-sent request with 200, the connector has slept at least r,
\* has sent the request exactly twice, and the fetch returns the data.
C16_OneThrottleOneDelayedRetry ==
    LET f == platform_api.fault
    IN  (FetchesOver /\ FaultMet /\ f.status = 429 /\ f.times = 1)
            => /\ conn.sent[f.type][f.page] = 2
               /\ conn.slept[f.type][f.page] >= RateLimitSleep(f)
               /\ f.type \notin conn.errors
               /\ conn.fetched[f.type] = Unfailing(conn.platform, f.type)

C16_Witness ==
    /\ conn.pc = "done" /\ conn.platform = "amazon"
    /\ platform_api.fault = [type |-> "orders", page |-> 2, status |-> 429,
                             times |-> 1, retry_after |-> <<1>>]
    /\ conn.sent["orders"][2] = 2
    /\ Len(conn.fetched["orders"]) = 3

\* C17: whatever the number k of consecutive 429 responses to the request
\* for one page, the fetch does not end on an error and returns every page.
C17_ThrottlingNeverAbortsFetch ==
    LET f == platform_api.fault
    IN  (FetchesOver /\ FaultMet /\ f.status = 429)
            => /\ f.type \notin conn.errors
               /\ conn.fetched[f.type] = Unfailing(conn.platform, f.type)

\* C18: a request answered with a permanent error (404) is sent once and
\* never again.
C18_PermanentErrorNotRetried ==
    LET f == platform_api.fault
    IN  f.status = 404 => conn.sent[f.type][f.page] <= 1

\* C19: a request that keeps failing with a 5xx or a connection failure is
\* sent at most max_attempts times in one fetch, _fetch_with_retry included,
\* and with the last of them the fetch ends.
C19_TransientRetriesBounded ==
    LET f == platform_api.fault
    IN  f.status \in {500, 0}
            => /\ \A type \in AllTypes, page \in 1..MaxPages :
                     conn.sent[type][page] <= max_attempts
               /\ (f.times >= max_attempts /\ conn.sent[f.type][f.page] = max_attempts)
                     => f.type \in conn.errors

C19_Witness ==
    /\ conn.pc = "done"
    /\ platform_api.fault.status = 500 /\ platform_api.fault.times = MaxFailed
    /\ platform_api.fault.type = "orders" /\ platform_api.fault.page = 1
    /\ conn.sent["orders"][1] = max_attempts
    /\ platform_api.served = max_attempts

\* What a run report says of one data type.
ShowsSucceeded(report, type) ==
    report.returned /\ report.success /\ type \in DOMAIN report.ingested

ShowsFailed(report, type) == report.returned /\ ~ShowsSucceeded(report, type)

\* C20: when the products fetch of a Shopify ingestion run fails with a
\* permanent error and the orders fetch succeeds, the report shows orders
\* as succeeded and products as failed, and every fetched order is in the
\* staging store.
C20_PartialFailureReported ==
    LET f == platform_api.fault
    IN  (/\ conn.pc = "done" /\ conn.platform = "shopify"
         /\ f.type = "products" /\ f.status = 404 /\ f.times >= max_attempts
         /\ "products" \in conn.errors /\ "orders" \notin conn.errors
         /\ "orders" \notin conn.lost)
            => /\ ShowsSucceeded(conn.report, "orders")
               /\ ShowsFailed(conn.report, "products")
               /\ \A n \in 1..Len(conn.fetched["orders"]) :
                     \E d \in 1..Len(staging) :
                        /\ staging[d].data_type = "orders"
                        /\ staging[d].payload = DictPayload(conn.fetched["orders"][n])

\* The documents of one data type that a run wrote to the staging store.
StagedOf(tenant_id, platform, type) ==
    { d \in 1..Len(staging) :
        /\ staging[d].tenant_id = tenant_id /\ staging[d].platform = platform
        /\ staging[d].data_type = type }

\* C21: when an ingestion run returns success with a count of n for a data
\* type, n documents of that data type written by the run are in the
\* staging store, also when a batch write failed.
C21_ReportedCountIsStaged ==
    (conn.pc = "done" /\ conn.report.returned /\ conn.report.success)
        => \A type \in DOMAIN conn.report.ingested :
              Cardinality(StagedOf(conn.tenant_id, conn.platform, type))
                  = conn.report.ingested[type]

\* C22: every ingestion, transform and aggregation entry point ends by
\* returning a report with a success flag; none raises an exception to
\* its caller.
C22_EveryRunReturnsReport ==
    tok.run.pc = "done" => tok.run.report.returned /\ ~tok.run.report.raised

ApiSent(call) == call.pc = "api" \/ call.token # 0

RefreshedTogether(platform) ==
    /\ tok.platform = platform /\ tok.mode = "concurrent"
    /\ ~tok.refresh_failed /\ tok.elapses = 0
    /\ \A c \in Calls :
          /\ tok.calls[c].pc \in {"api", "returned", "raised"}
          /\ tok.calls[c].had = 0 /\ ~tok.calls[c].found_valid

\* One of the calls asked for a token and every call went out with it.
SingleFlight ==
    /\ Cardinality({ c \in Calls : tok.calls[c].asked }) = 1
    /\ tok.issued = 1
    /\ \A c \in Calls : tok.calls[c].token = 1

C26_QuickBooksRefreshSingleFlight ==
    RefreshedTogether("quickbooks") =>
        Cardinality({ c \in Calls : tok.calls[c].asked }) = 1

\* C27: an ingestion run in which a token refresh failed does not report
\* success, and the token requests of the run are bounded.
C27_RefreshFailureFailsRun ==
    (tok.mode = "ingest" /\ tok.run.pc = "done" /\ tok.refresh_failed)
        => /\ ~tok.run.report.success
           /\ tok.token_requests <= max_attempts * Len(TokenFetches(tok.platform))

\* C28: in every fan-out job, a failure while processing one tenant or
\* credential is caught and every remaining one is still processed in the
\* same occurrence.
C28_FanOutIsolatesFailures ==
    (sched.job.pc = "done" /\ sched.job.name \in DOMAIN FanOutJobs)
        => /\ ~sched.job.raised
           /\ sched.job.tried = 1..Len(sched.tenants)

\* The jobs the scheduler holds, as get_jobs lists them.
JobsHeld == sched.pending \o sched.jobstore

DailyMetricsJob ==
    (CHOOSE j \in Range(GlobalJobs) : j.id = <<"daily_metrics_calculation">>).func

\* C30: after an occurrence of the registered daily metrics job in which no
\* step failed, a metrics record of the target date exists for every
\* tenant.
C30_DailyMetricsForEveryTenant ==
    (sched.job.name = DailyMetricsJob /\ sched.job.pc = "done" /\ ~sched.job.raised)
        => \A t \in 1..Len(sched.tenants) :
              \E n \in 1..Len(metrics_daily) :
                 /\ metrics_daily[n].tenant_id = sched.tenants[t]
                 /\ metrics_daily[n].date = TargetDate

\* C31: in a coordinator run the failure of the fetch of one data type does
\* not prevent the fetches of the other data types from being attempted,
\* and the data types that were fetched are staged.
C31_FetchFailureIsolated ==
    tok.run.pc = "done" =>
        /\ tok.run.step = Len(TokenFetches(tok.platform))
        /\ \A n \in 1..Len(tok.run.results) :
              tok.run.results[n] = "data" =>
                 StagedOf(tok.run.tenant_id, tok.platform,
                          TokenFetches(tok.platform)[n]) # {}

\* C32: a connector fetch whose request failed after its retries is shown
\* as a failure of that data type in the report of the run; its empty or
\* truncated result is not reported as a successful fetch.
C32_FailedFetchSurfaces ==
    conn.pc = "done" =>
        \A type \in conn.errors : ShowsFailed(conn.report, type)

\* The document the run of service r is about to process.
CurrentDoc(r) == staging[etl[r].raw_data[etl[r].i + etl[r].k + 1]]

UnknownTag(doc) == doc.data_type \notin {"orders", "products", "inventory"}

\* C33: a staged document with an unrecognized data-type tag is skipped
\* without failing its batch: the step that processes it keeps the rows the
\* other documents of the batch left pending, keeps the transaction open and
\* moves on to the next document or to the commit, and the commit of the
\* batch inserts exactly the pending rows.
C33_UnknownTagSkipped ==
    [][\A r \in Runs :
          /\ (/\ etl[r].pc = "doc"
              /\ etl'[r].pc \in {"doc", "commit"}
              /\ etl'[r].k = etl[r].k + 1
              /\ UnknownTag(CurrentDoc(r)))
                => /\ etl'[r].session = etl[r].session
                   /\ txstate'[r][BatchNo(etl[r].i)] = "open"
                   /\ canonical' = canonical
                   /\ staging' = staging
          /\ (/\ etl[r].pc = "commit"
              /\ txstate'[r][BatchNo(etl[r].i)] = "committed"
              /\ \E d \in Range(BatchDocs(etl[r])) : UnknownTag(staging[d]))
                => canonical' = canonical \o [n \in 1..Len(etl[r].session) |->
                                                  etl[r].session[n].row]]_vars

\* A committed batch that held a document with an unrecognized tag next to an
\* orders document, whose rows are stored.
C33_Witness ==
    \E r \in Runs :
        /\ etl[r].pc = "mark"
        /\ txstate[r][1] = "committed"
        /\ \E d \in Range(SubSeq(etl[r].raw_data, 1, Min(batch_size, Len(etl[r].raw_data)))) :
              UnknownTag(staging[d])
        /\ staging[etl[r].raw_data[1]].data_type = "orders"
        /\ \E n \in 1..Len(rowTx) : rowTx[n] = <<r, 1>>


\* C34: a malformed order record is skipped alone: when a run over a
\* (tenant, platform) has returned, none of its batches was rolled back and
\* every well-formed record of every staged orders document of that pair has
\* its canonical row.
C34_MalformedRecordSkippedAlone ==
    \A r \in Runs :
        (etl[r].pc = "done" /\ etl[r].result.returned) =>
            /\ \A b \in 1..MaxBatches : txstate[r][b] # "aborted"
            /\ \A d \in 1..Len(staging) :
                  (staging[d].tenant_id = etl[r].tenant_id
                     /\ staging[d].platform = etl[r].platform) =>
                        \A key \in DocKeys(staging[d]) : RowsWithKey(key) # {}


\* C35: staged documents are append-only: a step never removes a document,
\* every new document is staged with processed = false, a staged document
\* changes only in its processed flag, from false to true, in the marking
\* step of a transform run that collected its id, and the flag never goes
\* back to false.
C35_StagingAppendOnly ==
    [][/\ Len(staging') >= Len(staging)
       /\ \A d \in (Len(staging) + 1)..Len(staging') : ~staging'[d].processed
       /\ \A d \in 1..Len(staging) :
             \/ staging'[d] = staging[d]
             \/ /\ ~staging[d].processed
                /\ staging'[d] = [staging[d] EXCEPT !.processed = TRUE]
                /\ \E r \in Runs : /\ etl[r].pc = "mark"
                                   /\ d \in Range(etl[r].processed_ids)]_vars

\* A document marked processed for a committed batch, and a document staged
\* after it that is still unprocessed.
C35_Witness ==
    \E d \in 1..Len(staging) :
        /\ staging[d].processed
        /\ markedWhen[d] = "committed"
        /\ \E d2 \in (d + 1)..Len(staging) :
              /\ ~staging[d2].processed
              /\ staging[d2].data_type = staging[d].data_type


\* C36: the overall aggregate and the per-platform aggregates of one
\* calculate_metrics_daily call are computed from the same fetched set of
\* orders, and the overall total_orders and net sales are the sums of the
\* per-platform ones, whatever a transform run commits meanwhile.
C36_OneFetchedSet ==
    calc.pc = "done" =>
        /\ calc.platform_orders = calc.orders
        /\ ~calc.raised
        /\ calc.overall.total_orders =
              Sum(LET ps == SetToSeq(DOMAIN calc.platforms)
                  IN  [n \in 1..Len(ps) |-> calc.platforms[ps[n]].total_orders])
        /\ calc.overall.net_sales =
              Sum(LET ps == SetToSeq(DOMAIN calc.platforms)
                  IN  [n \in 1..Len(ps) |-> calc.platforms[ps[n]].net_sales])


OfTenant(db, tenant_id) == SelectSeq(db, LAMBDA o : o.tenant_id = tenant_id)

\* C38: tenant isolation: a transform run reads only the staged documents of
\* its tenant and inserts for each of them the rows it would insert were the
\* other tenants' rows absent, every order of a document marked processed
\* has a row under its own tenant, and a metrics calculation fetches and
\* counts only the rows of its tenant, in every interleaving of the runs.
C38_TenantIsolation ==
    /\ \A r \in Runs :
          /\ \A n \in 1..Len(etl[r].raw_data) :
                staging[etl[r].raw_data[n]].tenant_id = etl[r].tenant_id
          /\ etl[r].pc = "doc" =>
                _process_document(etl[r].tenant_id, etl[r].platform, CurrentDoc(r),
                                  canonical)
                  = _process_document(etl[r].tenant_id, etl[r].platform, CurrentDoc(r),
                                      OfTenant(canonical, etl[r].tenant_id))
    /\ \A d \in 1..Len(staging) :
          staging[d].processed => \A key \in DocKeys(staging[d]) : RowsWithKey(key) # {}
    /\ calc.pc \in {"breakdown", "done"} =>
          /\ \A n \in 1..Len(calc.orders) : calc.orders[n].tenant_id = calc.tenant_id
          /\ \A n \in 1..Len(calc.platform_orders) :
                calc.platform_orders[n].tenant_id = calc.tenant_id
          /\ calc.overall.total_orders = Len(calc.orders)

\* Both tenants hold a row for the same platform and external id, and a
\* metrics calculation of one tenant has counted its own row only.
C38_Witness ==
    /\ \E m, n \in 1..Len(canonical) :
          /\ canonical[m].tenant_id = "t1"
          /\ canonical[n].tenant_id = "t2"
          /\ canonical[m].platform = canonical[n].platform
          /\ canonical[m].external_order_id = canonical[n].external_order_id
    /\ calc.pc = "done"
    /\ calc.tenant_id = "t1"
    /\ calc.overall.total_orders = 1
    /\ Len(canonical) > 1
    /\ \A d \in 1..Len(staging) : staging[d].processed


\* C39: a paginated Amazon fetch terminates whenever the platform serves
\* finitely many distinct pages: once the loop is entered it is eventually
\* left, also when a NextToken repeats or cycles or a page fails.
C39_PaginationTerminates == (pager.pc = "loop") ~> (pager.pc = "done")


\* C40: after a logout answered with "Token has been revoked", no later
\* request carrying the token that was presented is accepted by
\* get_current_user.
C40_RevokedTokenRejected == auth.accepted_revoked = {}


====
